---- MODULE Spec2Model ----
(***************************************************************************)
(* Minipuls 3 pump controller (src/main.py).                               *)
(*                                                                         *)
(* Three threads share two queues and two events:                          *)
(*   "ui"     - the Tk main thread (PumpControlUI handlers),               *)
(*   "engine" - the sequence thread (PumpControlUI._sequence_worker and    *)
(*              the generator _execute_phase it drives),                   *)
(*   "worker" - the controller thread (MinipulsController.run).            *)
(*                                                                         *)
(* Time is counted in milliseconds, RPM in 1/10000 RPM (RpmUnit).          *)
(***************************************************************************)
EXTENDS Integers, Sequences, FiniteSets, TLC

VARIABLES
    \* ---- MinipulsController (transport worker) ----
    command_queue,      \* queue.Queue of command dicts, FIFO
    result_queue,       \* queue.Queue of result dicts, FIFO
    ser,                \* MinipulsController.ser: 0 is None, else a Serial object
    ports,              \* every Serial object ever constructed: [name, is_open]
    worker,             \* controller thread: "running" | "crashed" | "stopped"
    \* ---- observation of the run (history, never read by the program) ----
    portLog,            \* port operations in the order performed
    resLog,             \* results in the order emitted
    processed,          \* ids of the commands dequeued, in order
    sent,               \* every command ever enqueued, in order
    plan_time,          \* program time of the Phases completed in this run
    \* ---- PumpControlUI state (Tk thread) ----
    is_connected, is_running_sequence, is_paused,
    stop_event, pause_event,
    sequence_data,      \* the Program
    upc,                \* position of the Tk thread inside a handler
    finish_pending,     \* after(0, _on_sequence_finish) callbacks not yet run
    clicks,             \* operator input used so far: [total, run]
    limit,              \* the scenario: the COM ports present, the unit ids
                        \* entered, and how often the operator clicks and
                        \* the device faults at most
    \* ---- sequence thread: _sequence_worker and _execute_phase ----
    epc,                \* position of the sequence thread
    pc, cycle_counters, cumulative_time, current_rpm, phase_start_time,
    elapsed, duration_s, start_rpm, rpm_in_phase,
    pause_waited,       \* time.time() - pause_start_time (line 1931)
    walk,               \* history: the Phases entered and the Cycle jumps
                        \* taken by this run, in order
    \* ---- the last call of _flatten_sequence_for_plot ----
    plan,               \* its arguments, its locals when it ended, and how
                        \* it ended
    \* ---- editing the Program ----
    clipboard,          \* self.clipboard: the steps copied last
    templates,          \* self.settings["templates"]: name -> steps
    \* ---- the duration label, the live plot and the progress bars ----
    total_s,            \* _update_total_duration: the total last computed
    plot_is_live, actual_plot_data, last_plot_direction,
    after_calls,        \* after(0, _update_actual_plot, ...) calls that the
                        \* Tk thread has not run yet, oldest first
    time_before_phase, total_duration_global,   \* locals of _execute_phase
    progress,           \* the last call of _update_progress_bars: its
                        \* arguments and the two percentages, << >> if none
    \* ---- sequence files ----
    current_filepath,   \* "" until a file has been loaded or saved
    files,              \* the file system: the text of each sequence file
    file_ops            \* observation: the loads and saves performed

queueVars == <<command_queue, sent, ser, ports, portLog>>
workerVars == <<result_queue, resLog, processed, worker>>
uiVars == <<is_connected, is_running_sequence, is_paused, sequence_data, upc,
            finish_pending, clicks, limit>>
eventVars == <<stop_event, pause_event>>
engineLocals == <<pc, cycle_counters, cumulative_time, current_rpm,
                  phase_start_time, elapsed, duration_s, start_rpm,
                  rpm_in_phase, pause_waited, plan_time>>
engineVars == <<epc, engineLocals>>
flattenVars == <<plan>>
fileVars == <<current_filepath, files, file_ops>>
editVars == <<clipboard, templates, fileVars>>
plotVars == <<total_s, plot_is_live, actual_plot_data, last_plot_direction,
              after_calls>>
progressVars == <<time_before_phase, total_duration_global, progress>>

vars == <<queueVars, workerVars, uiVars, eventVars, engineVars, walk,
          flattenVars, editVars, plotVars, progressVars>>

portVars == <<ser, ports, portLog>>

----------------------------------------------------------------------------
(* Bounds of the model *)

MaxClicks == 3          \* operator clicks explored without a run
MaxFaults == 1          \* device faults (open failure, I/O fault) explored

(* Inputs *)

\* the port names of the combobox: to the program a name is only a label that
\* serial.Serial receives, so one name stands for all
PortNames == {"COM3"}
\* unit ids the entry accepts (validate_int): the default 30 and one whose
\* connect byte does not fit a byte
UnitIds == {30, 128}
NoByte == -1            \* ser.read(1) returned b'' (timeout)

----------------------------------------------------------------------------
(* Helpers *)

None == 0

\* one port operation, by thread t, on Serial object p, caused by command c
PortOp(t, op, p, bytes, frame, ok, c) ==
    [by |-> t, op |-> op, port |-> p, bytes |-> bytes, frame |-> frame,
     ok |-> ok, cmd |-> c]

Result(status, c) == [status |-> status, cmd |-> c]

\* A command dict. id, by, at and run are bookkeeping of the model: the
\* number of the put, the thread that put it, where that thread was, and the
\* run it belongs to.
Command(t, action, port, unit_id, baudrate, command_str) ==
    [action |-> action, port |-> port, unit_id |-> unit_id,
     baudrate |-> baudrate, command_str |-> command_str,
     id |-> Len(sent) + 1, by |-> t,
     at |-> IF t = "ui" THEN upc ELSE epc, run |-> clicks.run]
ConnectCmd(t, port, unit_id) == Command(t, "connect", port, unit_id, 19200, "")
PlainCmd(t, action) == Command(t, action, "", 0, 0, "")
SendCmd(t, command_str) == Command(t, "send_command", "", 0, 0, command_str)

\* bytes([x]) raises ValueError unless 0 <= x < 256
IsByte(x) == x >= 0 /\ x < 256

ClosePort(ps, p) == [ps EXCEPT ![p].is_open = FALSE]

----------------------------------------------------------------------------
(* Enqueuing: the only way the Tk thread and the engine reach the device *)

\* self.command_queue.put(<dict>) by thread t (lines 1440, 1444, 2141)
PutCommand(t, cmd) ==
    /\ command_queue' = Append(command_queue, cmd)
    /\ sent' = Append(sent, cmd)
    /\ UNCHANGED portVars

\* A caller that writes the frame to the port itself instead of queueing it:
\* what C4 excludes.
_send_pump_command_direct(t, command_str) ==
    /\ portLog' = Append(portLog, PortOp(t, "write", ser, <<>>,
                                         <<"\n", command_str, "\r">>, TRUE, 0))
    /\ UNCHANGED <<command_queue, sent, ser, ports>>

\* PumpControlUI._send_pump_command
_send_pump_command(t, command_str) ==
    PutCommand(t, SendCmd(t, command_str))

\* a step that enqueues nothing
NoPut == UNCHANGED queueVars

----------------------------------------------------------------------------
(* MinipulsController: the handlers work on T = [ser, ports, log] and give  *)
(* the results they put and whether an exception left the handler.          *)

Fault == -2             \* ser.read raised serial.SerialException

\* What the device and the OS do during one handler: whether open, the
\* first and the second write and close succeed (else SerialException), and
\* what read(1) gives.
DevOk == [open |-> TRUE, w1 |-> TRUE, w2 |-> TRUE, close |-> TRUE,
          rd |-> NoByte]
Reads ==
    {Fault, NoByte, 0} \cup {u + 128 : u \in {v \in UnitIds : IsByte(v + 128)}}
ConnectDevices ==
    {[DevOk EXCEPT !.open = FALSE], [DevOk EXCEPT !.w1 = FALSE],
     [DevOk EXCEPT !.w2 = FALSE], [DevOk EXCEPT !.close = FALSE]}
    \cup {[DevOk EXCEPT !.rd = r] : r \in Reads}
DisconnectDevices ==
    {DevOk, [DevOk EXCEPT !.w1 = FALSE], [DevOk EXCEPT !.close = FALSE]}
SendDevices == {DevOk, [DevOk EXCEPT !.w1 = FALSE]}

Outcome(s, ps, log, res, raised) ==
    [ser |-> s, ports |-> ps, log |-> log, res |-> res, raised |-> raised]

\* A connect byte without the offset: what C6 excludes.
ConnectByteNoOffset(unit_id) == unit_id

\* connect_command = bytes([config["unit_id"] + 128])
ConnectByte(unit_id) == unit_id + 128

\* MinipulsController._connect
_connect(t, config, dev, T) ==
    LET c == config.id
        new == Len(T.ports) + 1
        \* except serial.SerialException: self.ser = None; put error
        Except(log, ps) == Outcome(None, ps, log, <<Result("error", c)>>, FALSE)
        L0 == Append(T.log, PortOp(t, "open", IF dev.open THEN new ELSE None,
                                   <<>>, <<>>, dev.open, c))
    IN  IF ~dev.open THEN Except(L0, T.ports)
        ELSE
        LET P1 == Append(T.ports, [name |-> config.port, is_open |-> TRUE])
            L1 == Append(L0, PortOp(t, "write", new, <<255>>, <<>>, dev.w1, c))
        IN  IF ~dev.w1 THEN Except(L1, P1)
            ELSE IF ~IsByte(ConnectByte(config.unit_id))
            \* bytes([...]) raises ValueError, which no except clause catches
            THEN Outcome(new, P1, L1, <<>>, TRUE)
            ELSE
            LET connect_command == ConnectByte(config.unit_id)
                L2 == Append(L1, PortOp(t, "write", new, <<connect_command>>,
                                        <<>>, dev.w2, c))
            IN  IF ~dev.w2 THEN Except(L2, P1)
                ELSE
                LET response == dev.rd
                    L3 == Append(L2, PortOp(t, "read", new,
                              IF response \in {Fault, NoByte} THEN <<>>
                              ELSE <<response>>, <<>>, response # Fault, c))
                IN  IF response = Fault THEN Except(L3, P1)
                    ELSE IF response = connect_command
                    THEN Outcome(new, P1, L3, <<Result("connected", c)>>, FALSE)
                    ELSE
                    LET L4 == Append(L3, PortOp(t, "close", new, <<>>, <<>>,
                                                dev.close, c))
                    IN  IF ~dev.close THEN Except(L4, P1)
                        ELSE Outcome(None, ClosePort(P1, new), L4,
                                     <<Result("error", c)>>, FALSE)

\* A disconnect that keeps the handle when the device faults.
_disconnect_keeping_handle(t, command, dev, T) ==
    LET c == command.id
    IN  IF T.ser # None /\ T.ports[T.ser].is_open
        THEN
        LET L1 == Append(T.log, PortOp(t, "write", T.ser, <<255>>, <<>>,
                                       dev.w1, c))
            L2 == Append(L1, PortOp(t, "close", T.ser, <<>>, <<>>,
                                    dev.close, c))
        IN  IF ~dev.w1
            THEN Outcome(T.ser, T.ports, L1, <<Result("error", c)>>, FALSE)
            ELSE IF ~dev.close
            THEN Outcome(T.ser, T.ports, L2, <<Result("error", c)>>, FALSE)
            ELSE Outcome(None, ClosePort(T.ports, T.ser), L2,
                         <<Result("disconnected", c)>>, FALSE)
        ELSE Outcome(None, T.ports, T.log, <<>>, FALSE)

\* MinipulsController._disconnect
_disconnect(t, command, dev, T) ==
    LET c == command.id
    IN  IF T.ser # None /\ T.ports[T.ser].is_open
        THEN
        LET L1 == Append(T.log, PortOp(t, "write", T.ser, <<255>>, <<>>,
                                       dev.w1, c))
            L2 == Append(L1, PortOp(t, "close", T.ser, <<>>, <<>>,
                                    dev.close, c))
        IN  IF ~dev.w1
            THEN Outcome(None, T.ports, L1, <<Result("error", c)>>, FALSE)
            ELSE IF ~dev.close
            THEN Outcome(None, T.ports, L2, <<Result("error", c)>>, FALSE)
            ELSE Outcome(None, ClosePort(T.ports, T.ser), L2,
                         <<Result("disconnected", c)>>, FALSE)
        ELSE Outcome(None, T.ports, T.log, <<>>, FALSE)

\* A send that drops the command silently when no port is open.
_send_command_silent(t, command, dev, T) ==
    LET c == command.id
    IN  IF T.ser # None /\ T.ports[T.ser].is_open
        THEN
        LET full_command == <<"\n", command.command_str, "\r">>
            L1 == Append(T.log, PortOp(t, "write", T.ser, <<>>, full_command,
                                       dev.w1, c))
        IN  Outcome(T.ser, T.ports, L1, <<>>, ~dev.w1)
        ELSE Outcome(T.ser, T.ports, T.log, <<>>, FALSE)

\* MinipulsController._send_command
_send_command(t, command, dev, T) ==
    LET c == command.id
    IN  IF T.ser # None /\ T.ports[T.ser].is_open
        THEN
        LET full_command == <<"\n", command.command_str, "\r">>
            L1 == Append(T.log, PortOp(t, "write", T.ser, <<>>, full_command,
                                       dev.w1, c))
        \* a SerialException of ser.write is caught nowhere
        IN  Outcome(T.ser, T.ports, L1, <<>>, ~dev.w1)
        ELSE Outcome(T.ser, T.ports, T.log,
                     <<Result("error", c)>>, FALSE)

----------------------------------------------------------------------------
(* MinipulsController.run: one iteration of the loop per step *)

\* the thread that executes run (threading.Thread(target=...run))
ControllerThread == "worker"

\* A get that takes the newest command while the oldest leaves the queue:
\* what C5 excludes.
QGetNewest(q) == q[Len(q)]

\* command_queue.get(): the oldest command
QGet(q) == Head(q)
QRest(q) == Tail(q)

FaultsIn(log) == Cardinality({i \in 1..Len(log) : ~log[i].ok})

\* the effect of one handler call, and of leaving the loop
RunApply(command, R, leave) ==
    /\ FaultsIn(R.log) <= limit.faults
    /\ command_queue' = QRest(command_queue)
    /\ processed' = Append(processed, command.id)
    /\ ser' = R.ser
    /\ ports' = R.ports
    /\ portLog' = R.log
    /\ result_queue' = result_queue \o R.res
    /\ resLog' = resLog \o R.res
    /\ worker' = IF R.raised THEN "crashed"
                 ELSE IF leave THEN "stopped" ELSE "running"
    /\ UNCHANGED <<sent, uiVars, eventVars, engineVars>>

RunCommand(action) ==
    /\ worker = "running"
    /\ command_queue # <<>>
    /\ QGet(command_queue).action = action

T0 == [ser |-> ser, ports |-> ports, log |-> portLog]

Run_connect ==
    /\ RunCommand("connect")
    /\ \E dev \in ConnectDevices :
         RunApply(QGet(command_queue),
                  _connect(ControllerThread, QGet(command_queue), dev, T0),
                  FALSE)
    /\ UNCHANGED <<flattenVars, walk, editVars, plotVars, progressVars>>

Run_disconnect ==
    /\ RunCommand("disconnect")
    /\ \E dev \in DisconnectDevices :
         RunApply(QGet(command_queue),
                  _disconnect(ControllerThread, QGet(command_queue), dev, T0),
                  FALSE)
    /\ UNCHANGED <<flattenVars, walk, editVars, plotVars, progressVars>>

Run_send_command ==
    /\ RunCommand("send_command")
    /\ \E dev \in SendDevices :
         RunApply(QGet(command_queue),
                  _send_command(ControllerThread, QGet(command_queue), dev, T0),
                  FALSE)
    /\ UNCHANGED <<flattenVars, walk, editVars, plotVars, progressVars>>

Run_stop_thread ==
    /\ RunCommand("stop_thread")
    /\ \E dev \in DisconnectDevices :
         RunApply(QGet(command_queue),
                  _disconnect(ControllerThread, QGet(command_queue), dev, T0),
                  TRUE)
    /\ UNCHANGED <<flattenVars, walk, editVars, plotVars, progressVars>>

\* A Serial object nothing refers to any more is closed when (and if) the
\* runtime finalizes it; the program performs no operation for it.
Finalize ==
    /\ \E p \in 1..Len(ports) :
         /\ p # ser
         /\ ports[p].is_open
         /\ ports' = ClosePort(ports, p)
    /\ UNCHANGED <<command_queue, sent, ser, portLog, workerVars, uiVars,
                   eventVars, engineVars>>
    /\ UNCHANGED <<flattenVars, walk, editVars, plotVars, progressVars>>

----------------------------------------------------------------------------
(* The Program (sequence_data) *)

PROGRESS_INTERVAL == 100    \* 0.1 s, in ms
RpmUnit == 10000            \* RPM values are held in 1/10000 RPM

Phase(direction, mode, rpm, duration, unit, update_interval, enabled) ==
    [type |-> "Phase", direction |-> direction, mode |-> mode, rpm |-> rpm,
     duration |-> duration, unit |-> unit,
     update_interval |-> update_interval, enabled |-> enabled]
Cycle(start_phase, end_phase, repeats, enabled) ==
    [type |-> "Cycle", start_phase |-> start_phase, end_phase |-> end_phase,
     repeats |-> repeats, enabled |-> enabled]

\* the Programs explored (durations in ms when unit is "s")
Programs ==
    { << Phase("Forward", "Fixed", 12 * RpmUnit, 200, "s", 1000, TRUE),
         Phase("Backward", "Ramp", 24 * RpmUnit, 200, "s", 100, TRUE) >>,
      << Phase("Forward", "Ramp", 6 * RpmUnit, 100, "s", 100, FALSE),
         Phase("Backward", "Fixed", 6 * RpmUnit, 100, "s", 1000, TRUE),
         Cycle(2, 2, 1, TRUE) >> }

\* the Programs whose Phases are followed tick by tick: a Ramp whose
\* duration is not a multiple of the tick, a Phase of duration 0 before a
\* Ramp, a Ramp up after a Fixed Phase, a Ramp down, a Ramp whose values
\* have fractional hundredths of an RPM, and a Ramp whose update_interval
\* is not a multiple of the tick
PhasePrograms ==
    { << Phase("Forward", "Ramp", 24 * RpmUnit, 150, "s", 100, TRUE) >>,
      << Phase("Forward", "Fixed", 12 * RpmUnit, 0, "s", 1000, TRUE),
         Phase("Backward", "Ramp", 6 * RpmUnit, 200, "s", 100, TRUE) >>,
      << Phase("Forward", "Fixed", 12 * RpmUnit, 200, "s", 1000, TRUE),
         Phase("Forward", "Ramp", 24 * RpmUnit, 200, "s", 100, TRUE) >>,
      << Phase("Backward", "Fixed", 12 * RpmUnit, 100, "s", 1000, TRUE),
         Phase("Backward", "Ramp", 6 * RpmUnit, 200, "s", 200, TRUE) >>,
      << Phase("Forward", "Ramp", RpmUnit \div 10, 300, "s", 100, TRUE) >>,
      << Phase("Forward", "Ramp", 12 * RpmUnit, 300, "s", 150, TRUE) >> }

\* the Programs whose total duration is computed: every list of at most
\* MaxSteps of these steps (durations in 1/1000 of the unit)
DurationSteps ==
    { Phase("Forward", "Fixed", 12 * RpmUnit, 2000, "min", 1000, TRUE),
      Phase("Backward", "Ramp", 6 * RpmUnit, 30000, "s", 1000, TRUE),
      Phase("Forward", "Fixed", 6 * RpmUnit, 1000, "hr", 1000, FALSE),
      Cycle(1, 1, 2, TRUE),
      Cycle(2, 2, 1, TRUE),
      Cycle(1, 2, 3, FALSE) }
MaxDurationSteps == 3
DurationPrograms ==
    UNION { [1..n -> DurationSteps] : n \in 0..MaxDurationSteps }

\* the Programs whose expansion is explored: Phases of 100 ms, Cycles that
\* are nested, overlapping, self-targeting, forward-jumping, disabled, out
\* of range, and at the ceiling of the expansion
Pa(enabled) == Phase("Forward", "Fixed", 12 * RpmUnit, 100, "s", 1000, enabled)
Pb(enabled) == Phase("Backward", "Fixed", 6 * RpmUnit, 100, "s", 1000, enabled)
MaxWalk == 10
MAX_ITER == 10000       \* line 1846
\* more Phases than MAX_ITER
LongProgram == [i \in 1..(MAX_ITER + 1) |-> Pa(TRUE)]
\* repeats of a 2-step loop that needs 2 less than, exactly, and 2 more
\* than MAX_ITER passes
CeilingRepeats == ((MAX_ITER \div 2) - 2)..(MAX_ITER \div 2)
FlatPrograms ==
    { << Pa(TRUE), Pb(FALSE), Pb(TRUE) >>,
      << Pa(TRUE), Pb(TRUE), Cycle(2, 2, 2, TRUE) >>,
      << Pa(TRUE), Cycle(1, 1, 1, TRUE), Pb(TRUE), Cycle(1, 3, 1, TRUE) >>,
      << Pa(TRUE), Cycle(2, 2, 2, TRUE) >>,
      << Cycle(3, 3, 1, TRUE), Pa(TRUE), Pb(TRUE) >>,
      << Pa(TRUE), Cycle(1, 1, 2, FALSE), Pb(FALSE) >>,
      << Pa(TRUE), Cycle(0, 0, 1, TRUE) >>,
      << Pa(TRUE), Cycle(5, 5, 1, TRUE) >>,
      << Pa(TRUE), Cycle(-2, -2, 1, TRUE) >>,
      << Cycle(3, 3, 1, TRUE), Cycle(5, 5, 1, TRUE), Pa(TRUE),
         Cycle(2, 4, 2, TRUE), Pb(TRUE) >>,
      << Cycle(2, 3, 1, TRUE), Pa(TRUE), Cycle(2, 2, 1, TRUE) >>,
      << Pa(TRUE), Cycle(1, 1, 99, TRUE), Cycle(1, 2, 99, TRUE) >> }
    \cup { << Pa(TRUE), Cycle(1, 1, n, TRUE) >> :
             n \in CeilingRepeats }
    \cup { LongProgram }


\* sequence_data[i] as Python indexes a list: from 0, negative from the end
InRange(seq, i) == i >= -Len(seq) /\ i < Len(seq)
Item(seq, i) == IF i >= 0 THEN seq[i + 1] ELSE seq[Len(seq) + i + 1]

AnyEnabled(seq) == {i \in 1..Len(seq) : seq[i].enabled} # {}

\* int(x) of x = a / b, b > 0: truncation toward zero
Trunc(a, b) == IF a >= 0 THEN a \div b ELSE -((-a) \div b)

\* f"{n:03}"
Fmt03(n) ==
    IF n >= 0
    THEN (IF n < 10 THEN "00" ELSE IF n < 100 THEN "0" ELSE "") \o ToString(n)
    ELSE "-" \o (IF -n < 10 THEN "0" ELSE "") \o ToString(-n)

\* f"R{int(rpm * 100):03}"
SpeedCommand(rpm) == "R" \o Fmt03(Trunc(rpm * 100, RpmUnit))

----------------------------------------------------------------------------
(* _flatten_sequence_for_plot (lines 1845-1881) as a function of the        *)
(* Program and of its two arguments. FlattenPass is one pass of the while   *)
(* loop over the locals of the call, Flatten the locals when the call has   *)
(* ended. flat_list holds the positions of the steps appended, so that      *)
(* equal steps at different positions stay distinct.                        *)

\* a counter map that keeps the entry
DelNothing(f, k) == f

\* del cycle_counters[pc]
Del(f, k) == [x \in DOMAIN f \ {k} |-> f[x]]

\* line 1846; jumps and passed are history: the jumps taken by each Cycle
\* since its counter was created, and the Cycles passed with the jumps
\* they had taken
FlattenStart(inc, only) ==
    [at |-> "loop", include_disabled |-> inc, only_disabled |-> only,
     flat_list |-> << >>, pc |-> 0, iterations |-> 0,
     cycle_counters |-> << >>, jumps |-> << >>, passed |-> << >>,
     log |-> << >>]

\* no call yet
NoFlatten == plan = [FlattenStart(FALSE, FALSE) EXCEPT !.at = "idle"]

SkippedWhenOnlyDisabled(s, instr) == s.only_disabled /\ instr.enabled

\* lines 1851-1856: the steps the call passes over; the continue leaves
\* iterations as it is
Skipped(s, instr) ==
    \/ s.only_disabled /\ instr.enabled
    \/ ~s.include_disabled /\ ~instr.enabled

CounterStartOneLess(instr) == instr.repeats - 1

\* line 1863: cycle_counters[pc] = instr['repeats']
CounterStart(instr) == instr.repeats

\* line 1867: 0 <= target_pc < len(self.sequence_data)
ValidTarget(seq, target_pc) == 0 <= target_pc /\ target_pc < Len(seq)

\* line 1847: the loop condition
FlattenGoesOn(seq, s) == s.pc < Len(seq) /\ s.iterations < MAX_ITER

\* line 1878
Overflowed(s) == s.iterations >= MAX_ITER

\* lines 1878-1881, reached when the loop condition fails or by the break
FlattenEnd(s) ==
    IF Overflowed(s)
    THEN [s EXCEPT !.at = "raised",          \* RecursionError
                   !.log = Append(@, "too many steps")]
    ELSE [s EXCEPT !.at = "returned"]

\* lines 1847-1877: one pass of the loop
FlattenPass(seq, s) ==
    IF s.at # "loop" THEN s
    ELSE IF ~FlattenGoesOn(seq, s) THEN FlattenEnd(s)
    ELSE
    LET instr == Item(seq, s.pc)
    IN  IF Skipped(s, instr)
        THEN [s EXCEPT !.pc = @ + 1]
        ELSE IF instr.type = "Phase"
        THEN [s EXCEPT !.flat_list = Append(@, s.pc),
                       !.pc = @ + 1,
                       !.iterations = @ + 1]
        ELSE IF ~instr.enabled
        THEN [s EXCEPT !.pc = @ + 1, !.iterations = @ + 1]
        ELSE
        LET fresh == s.pc \notin DOMAIN s.cycle_counters
            cc == IF fresh
                  THEN (s.pc :> CounterStart(instr)) @@ s.cycle_counters
                  ELSE s.cycle_counters
            jj == IF fresh THEN (s.pc :> 0) @@ s.jumps ELSE s.jumps
            target_pc == instr.start_phase - 1
        IN  IF cc[s.pc] > 0
            THEN IF ValidTarget(seq, target_pc)
                 THEN [s EXCEPT !.cycle_counters = [cc EXCEPT ![s.pc] = @ - 1],
                                !.jumps = [jj EXCEPT ![s.pc] = @ + 1],
                                !.pc = target_pc,
                                !.iterations = @ + 1]
                 ELSE \* lines 1870-1871: log and break
                      FlattenEnd(
                        [s EXCEPT !.cycle_counters =
                                      [cc EXCEPT ![s.pc] = @ - 1],
                                  !.jumps = jj,
                                  !.log = Append(@, "Invalid start phase")])
            ELSE [s EXCEPT !.cycle_counters = Del(cc, s.pc),
                           !.jumps = Del(jj, s.pc),
                           !.passed = Append(@, [at |-> s.pc,
                                                 jumps |-> jj[s.pc]]),
                           !.pc = @ + 1,
                           !.iterations = @ + 1]

\* n passes of the loop, or as many as the call makes
RECURSIVE FlattenPasses(_, _, _)
FlattenPasses(seq, s, n) ==
    IF n = 0 THEN s
    ELSE IF n = 1 THEN FlattenPass(seq, s)
    ELSE LET half == FlattenPasses(seq, s, n \div 2)
         IN  IF half.at # "loop" THEN half
             ELSE FlattenPasses(seq, half, n - (n \div 2))

\* No call makes more passes: at most MAX_ITER passes count in iterations,
\* each of the others moves pc forward by one, and one more ends the call.
PassBound(seq) == (MAX_ITER + 1) * (Len(seq) + 1) + 1

Flatten(seq, inc, only) ==
    FlattenPasses(seq, FlattenStart(inc, only), PassBound(seq))

\* A conversion that takes every unit for seconds.
UnitFactorSeconds(unit) == 1

\* {'s': 1, 'min': 60, 'hr': 3600}.get(unit, 1)
UnitFactor(unit) ==
    CASE unit = "s" -> 1 [] unit = "min" -> 60 [] unit = "hr" -> 3600
      [] OTHER -> 1

\* s['duration'] * {...}.get(s['unit'], 1) for the step at position p
StepSeconds(seq, p) == Item(seq, p).duration * UnitFactor(Item(seq, p).unit)

\* sum(... for s in flat[lo..hi]), taken by halves
RECURSIVE SumSeconds(_, _, _, _)
SumSeconds(seq, flat, lo, hi) ==
    IF lo > hi THEN 0
    ELSE IF lo = hi THEN StepSeconds(seq, flat[lo])
    ELSE LET mid == (lo + hi) \div 2
         IN  SumSeconds(seq, flat, lo, mid)
                + SumSeconds(seq, flat, mid + 1, hi)

\* _calculate_total_duration (lines 2008-2013)
_calculate_total_duration(seq, include_disabled) ==
    LET f == Flatten(seq, include_disabled, FALSE)
    IN  IF f.at = "raised" THEN 0      \* except RecursionError: return 0
        ELSE SumSeconds(seq, f.flat_list, 1, Len(f.flat_list))

FlattenFrame ==
    UNCHANGED <<queueVars, workerVars, uiVars, eventVars, engineVars, walk,
                editVars, plotVars, progressVars>>

\* the calls made while the Program is edited or shown: lines 1667 and 1730
\* (enabled steps), 1710 (disabled steps), 1820 (every step)
FlattenModes == { <<FALSE, FALSE>>, <<TRUE, TRUE>>, <<TRUE, FALSE>> }

UpdatePlot ==
    /\ upc = "idle" /\ epc = "none"
    /\ \E m \in FlattenModes : plan' = Flatten(sequence_data, m[1], m[2])
    /\ FlattenFrame

\* _update_total_duration (lines 1660-1667), as called when the settings
\* dialog is closed (line 1273)
UpdateTotalDuration ==
    /\ upc = "idle"
    /\ total_s' = _calculate_total_duration(sequence_data, FALSE)
    /\ plan' = Flatten(sequence_data, FALSE, FALSE)
    /\ UNCHANGED <<queueVars, workerVars, uiVars, eventVars, engineVars,
                   walk, editVars, progressVars>>
    /\ UNCHANGED <<plot_is_live, actual_plot_data, last_plot_direction,
                   after_calls>>

----------------------------------------------------------------------------
(* The live plot: _update_actual_plot runs on the Tk thread for every       *)
(* sample the sequence thread posts with after(0, ...).                     *)

NoDirection == "None"       \* self.last_plot_direction = None
NoPlotData == [time |-> << >>, rpm |-> << >>]

\* _update_actual_plot (lines 1767-1780) on P = [live, data, last]
_update_actual_plot(P, call) ==
    IF ~P.live THEN P
    ELSE IF call.direction # P.last
    THEN [P EXCEPT !.last = call.direction,
                   !.data = [time |-> <<call.time_pos>>,
                             rpm |-> <<call.rpm_pos>>]]
    ELSE [P EXCEPT !.data = [time |-> Append(P.data.time, call.time_pos),
                             rpm |-> Append(P.data.rpm, call.rpm_pos)]]

\* the calls of the list, oldest first
RECURSIVE RunPlotCalls(_, _)
RunPlotCalls(P, calls) ==
    IF calls = << >> THEN P
    ELSE RunPlotCalls(_update_actual_plot(P, Head(calls)), Tail(calls))

P0 == [live |-> plot_is_live, data |-> actual_plot_data,
       last |-> last_plot_direction]

UpdateActualPlot ==
    /\ upc = "idle"
    /\ after_calls # << >>
    /\ LET P == _update_actual_plot(P0, Head(after_calls))
       IN  /\ actual_plot_data' = P.data
           /\ last_plot_direction' = P.last
    /\ after_calls' = Tail(after_calls)
    /\ UNCHANGED <<queueVars, workerVars, uiVars, eventVars, engineVars,
                   walk, flattenVars, editVars, progressVars>>
    /\ UNCHANGED <<total_s, plot_is_live>>

----------------------------------------------------------------------------
(* PumpControlUI handlers (Tk thread). A handler that touches state shared  *)
(* with the sequence thread more than once is one step per touch.           *)

RunClicks == 4          \* operator clicks explored on a connected pump

\* operator clicks explored with all three threads running
AllClicks == 3
SmallProgram ==
    << Phase("Forward", "Ramp", 12 * RpmUnit, 100, "s", 100, TRUE) >>

ThreadAlive == epc \notin {"none", "done", "crashed"}

UiStep(from, to) == upc = from /\ upc' = to

\* _connect_pump (Connect button: enabled by _update_ui_states, line 1281)
ConnectPump ==
    /\ UiStep("idle", "idle")
    /\ ~is_connected /\ ~is_running_sequence
    /\ clicks.total < limit.clicks
    /\ \E port \in limit.ports, unit_id \in limit.unit_ids :
         PutCommand("ui", ConnectCmd("ui", port, unit_id))
    /\ clicks' = [clicks EXCEPT !.total = @ + 1]
    /\ UNCHANGED <<is_connected, is_running_sequence, is_paused,
                   sequence_data, finish_pending, limit>>
    /\ UNCHANGED <<workerVars, eventVars, engineVars>>
    /\ UNCHANGED <<flattenVars, walk, editVars, plotVars, progressVars>>

\* _disconnect_pump (Disconnect button, line 1282): SK, then disconnect
DisconnectPump ==
    /\ UiStep("idle", "disconnect_put")
    /\ is_connected /\ ~is_running_sequence
    /\ clicks.total < limit.clicks
    /\ _send_pump_command("ui", "SK")
    /\ clicks' = [clicks EXCEPT !.total = @ + 1]
    /\ UNCHANGED <<is_connected, is_running_sequence, is_paused,
                   sequence_data, finish_pending, limit>>
    /\ UNCHANGED <<workerVars, eventVars, engineVars>>
    /\ UNCHANGED <<flattenVars, walk, editVars, plotVars, progressVars>>

DisconnectPump_put ==
    /\ UiStep("disconnect_put", "idle")
    /\ PutCommand("ui", PlainCmd("ui", "disconnect"))
    /\ UNCHANGED <<is_connected, is_running_sequence, is_paused,
                   sequence_data, finish_pending, clicks, limit>>
    /\ UNCHANGED <<workerVars, eventVars, engineVars>>
    /\ UNCHANGED <<flattenVars, walk, editVars, plotVars, progressVars>>

\* _process_results: one iteration of the drain loop per step; the handler
\* returns when it finds the result queue empty
ProcessResults ==
    /\ upc \in {"idle", "drain"}
    /\ result_queue # <<>>
    /\ upc' = IF Tail(result_queue) = <<>> THEN "idle" ELSE "drain"
    /\ LET status == Head(result_queue).status
       IN  /\ result_queue' = Tail(result_queue)
           /\ IF status = "connected"
              THEN /\ is_connected' = TRUE
                   /\ _send_pump_command("ui", "SR")
                   /\ UNCHANGED is_running_sequence
              ELSE IF status = "disconnected"
              THEN /\ is_connected' = FALSE
                   /\ is_running_sequence' = FALSE
                   /\ NoPut
              ELSE /\ UNCHANGED <<is_connected, is_running_sequence>>
                   /\ NoPut
    /\ UNCHANGED <<is_paused, sequence_data, finish_pending, clicks, limit>>
    /\ UNCHANGED <<resLog, processed, worker, eventVars, engineVars>>
    /\ UNCHANGED <<flattenVars, walk, editVars, plotVars, progressVars>>

\* _run_sequence (Run button: can_run, line 1288). The handler does not
\* look at sequence_thread; a thread started beside a live one is not
\* followed here.
RunSequence ==
    /\ UiStep("idle", "idle")
    /\ is_connected /\ ~is_running_sequence /\ AnyEnabled(sequence_data)
    /\ ~ThreadAlive
    /\ clicks.total < limit.clicks
    /\ is_running_sequence' = TRUE
    /\ is_paused' = FALSE
    /\ stop_event' = FALSE
    /\ pause_event' = FALSE
    /\ epc' = "start"
    /\ clicks' = [clicks EXCEPT !.total = @ + 1, !.run = @ + 1]
    /\ NoPut
    /\ plan' = Flatten(sequence_data, FALSE, FALSE)
    /\ plot_is_live' = TRUE
    /\ actual_plot_data' = [time |-> <<0>>, rpm |-> <<0>>]
    /\ last_plot_direction' = NoDirection
    /\ UNCHANGED <<is_connected, sequence_data, finish_pending, limit>>
    /\ UNCHANGED <<workerVars, engineLocals, walk, editVars>>
    /\ UNCHANGED <<total_s, after_calls, progressVars>>

\* _pause_resume_sequence (Pause button: enabled while is_running_sequence)
PauseResume ==
    /\ upc = "idle"
    /\ is_running_sequence
    /\ clicks.total < limit.clicks
    /\ is_paused' = ~is_paused
    /\ upc' = IF is_paused' THEN "pause_set" ELSE "resume_clear"
    /\ clicks' = [clicks EXCEPT !.total = @ + 1]
    /\ NoPut
    /\ UNCHANGED <<is_connected, is_running_sequence, sequence_data,
                   finish_pending, limit>>
    /\ UNCHANGED <<workerVars, eventVars, engineVars>>
    /\ UNCHANGED <<flattenVars, walk, editVars, plotVars, progressVars>>

PauseResume_set ==
    /\ UiStep("pause_set", "pause_kh")
    /\ pause_event' = TRUE
    /\ NoPut
    /\ UNCHANGED <<is_connected, is_running_sequence, is_paused,
                   sequence_data, finish_pending, clicks, limit>>
    /\ UNCHANGED <<workerVars, stop_event, engineVars>>
    /\ UNCHANGED <<flattenVars, walk, editVars, plotVars, progressVars>>

PauseResume_kh ==
    /\ UiStep("pause_kh", "idle")
    /\ _send_pump_command("ui", "KH")
    /\ UNCHANGED <<is_connected, is_running_sequence, is_paused,
                   sequence_data, finish_pending, clicks, limit>>
    /\ UNCHANGED <<workerVars, eventVars, engineVars>>
    /\ UNCHANGED <<flattenVars, walk, editVars, plotVars, progressVars>>

PauseResume_clear ==
    /\ UiStep("resume_clear", "idle")
    /\ pause_event' = FALSE
    /\ NoPut
    /\ UNCHANGED <<is_connected, is_running_sequence, is_paused,
                   sequence_data, finish_pending, clicks, limit>>
    /\ UNCHANGED <<workerVars, stop_event, engineVars>>
    /\ UNCHANGED <<flattenVars, walk, editVars, plotVars, progressVars>>

\* _stop_sequence (Stop button: enabled while is_running_sequence)
StopSequence ==
    /\ upc = "idle"
    /\ is_running_sequence
    /\ clicks.total < limit.clicks
    /\ clicks' = [clicks EXCEPT !.total = @ + 1]
    \* if self.sequence_thread and self.sequence_thread.is_alive()
    /\ upc' = IF ThreadAlive THEN "stop_kh" ELSE "idle"
    /\ NoPut
    /\ UNCHANGED <<is_connected, is_running_sequence, is_paused,
                   sequence_data, finish_pending, limit>>
    /\ UNCHANGED <<workerVars, eventVars, engineVars>>
    /\ UNCHANGED <<flattenVars, walk, editVars, plotVars, progressVars>>

StopSequence_kh ==
    /\ UiStep("stop_kh", "stop_set")
    /\ _send_pump_command("ui", "KH")
    /\ UNCHANGED <<is_connected, is_running_sequence, is_paused,
                   sequence_data, finish_pending, clicks, limit>>
    /\ UNCHANGED <<workerVars, eventVars, engineVars>>
    /\ UNCHANGED <<flattenVars, walk, editVars, plotVars, progressVars>>

StopSequence_set ==
    /\ UiStep("stop_set", "stop_clear")
    /\ stop_event' = TRUE
    /\ NoPut
    /\ UNCHANGED <<is_connected, is_running_sequence, is_paused,
                   sequence_data, finish_pending, clicks, limit>>
    /\ UNCHANGED <<workerVars, pause_event, engineVars>>
    /\ UNCHANGED <<flattenVars, walk, editVars, plotVars, progressVars>>

StopSequence_clear ==
    /\ UiStep("stop_clear", "idle")
    /\ pause_event' = FALSE
    /\ NoPut
    /\ UNCHANGED <<is_connected, is_running_sequence, is_paused,
                   sequence_data, finish_pending, clicks, limit>>
    /\ UNCHANGED <<workerVars, stop_event, engineVars>>
    /\ UNCHANGED <<flattenVars, walk, editVars, plotVars, progressVars>>

\* _on_sequence_finish (posted by the sequence thread with after(0, ...)):
\* Tk runs the calls posted before it first
OnSequenceFinish ==
    /\ UiStep("idle", "idle")
    /\ finish_pending > 0
    /\ finish_pending' = finish_pending - 1
    /\ is_running_sequence' = FALSE
    /\ is_paused' = FALSE
    /\ LET P == RunPlotCalls(P0, after_calls)
       IN  /\ actual_plot_data' = P.data
           /\ last_plot_direction' = P.last
    /\ after_calls' = << >>
    /\ plot_is_live' = FALSE
    /\ NoPut
    /\ UNCHANGED <<is_connected, sequence_data, clicks, limit>>
    /\ UNCHANGED <<workerVars, eventVars, engineVars>>
    /\ UNCHANGED <<flattenVars, walk, editVars, total_s, progressVars>>

\* _on_closing: disconnect if connected, stop_thread, stop_event.set();
\* the bounded joins that follow change no state.
OnClosing ==
    /\ upc = "idle"
    /\ clicks.total < limit.clicks
    /\ clicks' = [clicks EXCEPT !.total = @ + 1]
    /\ IF is_connected
       THEN /\ upc' = "closing_disconnect"
            /\ _send_pump_command("ui", "SK")
       ELSE /\ upc' = "closing_set"
            /\ PutCommand("ui", PlainCmd("ui", "stop_thread"))
    /\ UNCHANGED <<is_connected, is_running_sequence, is_paused,
                   sequence_data, finish_pending, limit>>
    /\ UNCHANGED <<workerVars, eventVars, engineVars>>
    /\ UNCHANGED <<flattenVars, walk, editVars, plotVars, progressVars>>

OnClosing_disconnect ==
    /\ UiStep("closing_disconnect", "closing_stop_thread")
    /\ PutCommand("ui", PlainCmd("ui", "disconnect"))
    /\ UNCHANGED <<is_connected, is_running_sequence, is_paused,
                   sequence_data, finish_pending, clicks, limit>>
    /\ UNCHANGED <<workerVars, eventVars, engineVars>>
    /\ UNCHANGED <<flattenVars, walk, editVars, plotVars, progressVars>>

OnClosing_stop_thread ==
    /\ UiStep("closing_stop_thread", "closing_set")
    /\ PutCommand("ui", PlainCmd("ui", "stop_thread"))
    /\ UNCHANGED <<is_connected, is_running_sequence, is_paused,
                   sequence_data, finish_pending, clicks, limit>>
    /\ UNCHANGED <<workerVars, eventVars, engineVars>>
    /\ UNCHANGED <<flattenVars, walk, editVars, plotVars, progressVars>>

OnClosing_set ==
    /\ UiStep("closing_set", "closed")
    /\ stop_event' = TRUE
    /\ NoPut
    /\ UNCHANGED <<is_connected, is_running_sequence, is_paused,
                   sequence_data, finish_pending, clicks, limit>>
    /\ UNCHANGED <<workerVars, pause_event, engineVars>>
    /\ UNCHANGED <<flattenVars, walk, editVars, plotVars, progressVars>>

----------------------------------------------------------------------------
(* The sequence thread: _sequence_worker driving the generator              *)
(* _execute_phase. One step per read or write of state shared with the Tk   *)
(* thread (stop_event, pause_event, is_paused, command_queue).              *)

MaxWait == 200          \* longest pause wait explored at line 1932, in ms
MaxBefore == 500        \* largest time_before_phase from which a paused
                        \* wait of line 1972 is explored, in ms

EngineAt(from, to) == epc = from /\ epc' = to
\* a sequence thread that disables the first step of the Program
EngineFrameDisabling ==
    /\ UNCHANGED <<workerVars, eventVars, is_connected, is_running_sequence,
                   is_paused, upc, finish_pending, clicks, limit>>
    /\ sequence_data' = IF sequence_data = << >> THEN sequence_data
                        ELSE [sequence_data EXCEPT ![1].enabled = FALSE]

EngineFrame == UNCHANGED <<workerVars, uiVars, eventVars>>

instruction == Item(sequence_data, pc)

\* lines 1905-1907
Worker_start ==
    /\ EngineAt("start", "loop")
    /\ current_rpm' = 0
    /\ pc' = 0
    /\ cycle_counters' = << >>
    /\ cumulative_time' = 0
    /\ plan_time' = 0
    /\ NoPut /\ EngineFrame
    /\ walk' = << >>
    /\ UNCHANGED <<phase_start_time, elapsed, duration_s, start_rpm,
                   rpm_in_phase, pause_waited>>
    /\ UNCHANGED <<flattenVars, editVars, plotVars, progressVars>>

\* line 1909: while pc < len(self.sequence_data) and not stop_event.is_set()
Worker_while ==
    /\ epc = "loop"
    /\ epc' = IF pc < Len(sequence_data) /\ ~stop_event
              THEN "pause_check" ELSE "end"
    /\ NoPut /\ EngineFrame /\ UNCHANGED engineLocals
    /\ UNCHANGED <<flattenVars, walk, editVars, plotVars, progressVars>>

\* lines 1910-1912: if pause_event.is_set(): sleep(0.2); continue
Worker_pause_check ==
    /\ epc = "pause_check"
    /\ epc' = IF pause_event THEN "loop" ELSE "dispatch"
    /\ NoPut /\ EngineFrame /\ UNCHANGED engineLocals
    /\ UNCHANGED <<flattenVars, walk, editVars, plotVars, progressVars>>

\* a search that takes the step at p whether enabled or not
NextEnabledIsHere(seq, p) == p

\* lines 1915-1916: the first position from p on that is not a disabled step
RECURSIVE NextEnabled(_, _)
NextEnabled(seq, p) ==
    IF p < Len(seq) /\ InRange(seq, p) /\ ~Item(seq, p).enabled
    THEN NextEnabled(seq, p + 1) ELSE p

\* the position, counted from 0, of the step that seq[p] denotes in Python
Position(seq, p) == IF p < 0 THEN p + Len(seq) ELSE p

\* entries of the history walk: a Phase entered (line 1920), a Cycle jump
\* taken (lines 1947-1948) with the number of commands put before it
Entered(seq, p) == [type |-> "Phase", at |-> Position(seq, p)]
Jumped(seq, p, target) ==
    [type |-> "Cycle", at |-> Position(seq, p), to |-> target,
     puts |-> Len(sent)]

\* lines 1914-1928 and 1943-1950: skip disabled steps, then start the Phase
\* or take the Cycle
Worker_dispatch ==
    /\ epc = "dispatch"
    /\ LET p == NextEnabled(sequence_data, pc)
           step == Item(sequence_data, p)
       IN  IF p >= Len(sequence_data)
           THEN /\ epc' = "end"
                /\ pc' = p
                /\ UNCHANGED <<cycle_counters, phase_start_time, walk>>
           ELSE IF ~InRange(sequence_data, p)
           THEN \* IndexError ends the thread
                /\ epc' = "crashed"
                /\ pc' = p
                /\ UNCHANGED <<cycle_counters, phase_start_time, walk>>
           ELSE IF step.type = "Phase"
           THEN /\ epc' = "phase_enter"
                /\ pc' = p
                /\ phase_start_time' = cumulative_time
                /\ walk' = Append(walk, Entered(sequence_data, p))
                /\ UNCHANGED cycle_counters
           ELSE LET cc == IF p \in DOMAIN cycle_counters THEN cycle_counters
                          ELSE (p :> step.repeats) @@ cycle_counters
                IN  /\ epc' = "loop"
                    /\ IF cc[p] > 0
                       THEN /\ cycle_counters' = [cc EXCEPT ![p] = @ - 1]
                            /\ pc' = step.start_phase - 1
                            /\ walk' = Append(walk,
                                   Jumped(sequence_data, p,
                                          step.start_phase - 1))
                       ELSE /\ cycle_counters' = Del(cc, p)
                            /\ pc' = p + 1
                            /\ UNCHANGED walk
                    /\ UNCHANGED phase_start_time
    /\ NoPut /\ EngineFrame
    /\ UNCHANGED <<cumulative_time, current_rpm, elapsed, duration_s,
                   start_rpm, rpm_in_phase, pause_waited, plan_time>>
    /\ UNCHANGED <<flattenVars, editVars, plotVars, progressVars>>

\* line 1959: the direction command
Phase_direction ==
    /\ EngineAt("phase_enter", "phase_setup")
    /\ _send_pump_command("engine",
          IF instruction.direction = "Forward" THEN "K>" ELSE "K<")
    /\ EngineFrame /\ UNCHANGED engineLocals
    /\ UNCHANGED <<flattenVars, walk, editVars, plotVars, progressVars>>

\* lines 1960-1968
Phase_setup ==
    /\ EngineAt("phase_setup", "phase_while")
    /\ duration_s' = instruction.duration * UnitFactor(instruction.unit)
    /\ elapsed' = 0
    /\ start_rpm' = current_rpm
    /\ total_duration_global' =
           _calculate_total_duration(sequence_data, FALSE)
    /\ time_before_phase' =
           IF actual_plot_data.time # << >>
           THEN actual_plot_data.time[Len(actual_plot_data.time)] ELSE 0
    /\ IF instruction.mode = "Fixed"
       THEN _send_pump_command("engine", SpeedCommand(instruction.rpm))
       ELSE NoPut
    /\ EngineFrame
    /\ UNCHANGED <<pc, cycle_counters, cumulative_time, current_rpm,
                   phase_start_time, rpm_in_phase, pause_waited, plan_time>>
    /\ UNCHANGED <<flattenVars, walk, editVars, plotVars, progress>>

\* line 1970: while elapsed < duration_s and not stop_event.is_set()
Phase_while ==
    /\ epc = "phase_while"
    /\ epc' = IF elapsed < duration_s /\ ~stop_event
              THEN "phase_wait" ELSE "phase_final"
    /\ NoPut /\ EngineFrame /\ UNCHANGED engineLocals
    /\ UNCHANGED <<flattenVars, walk, editVars, plotVars, progressVars>>

\* lines 1971-1975: stop_event.wait(0.1), which returns at once when the
\* event is set; if paused, count the wait and go round again
Phase_wait ==
    /\ epc = "phase_wait"
    /\ IF pause_event
       THEN /\ epc' = "phase_while"
            /\ IF stop_event
               THEN UNCHANGED time_before_phase
               ELSE /\ time_before_phase < MaxBefore
                    /\ time_before_phase' =
                           time_before_phase + PROGRESS_INTERVAL
       ELSE /\ epc' = "phase_tick"
            /\ UNCHANGED time_before_phase
    /\ NoPut /\ EngineFrame /\ UNCHANGED engineLocals
    /\ UNCHANGED <<flattenVars, walk, editVars, plotVars>>
    /\ UNCHANGED <<total_duration_global, progress>>

\* start_rpm + (phase['rpm'] - start_rpm) * (elapsed / duration_s)
RampRpm(start, target, e, d) == start + Trunc((target - start) * e, d)

\* int(elapsed / update_interval) > int((elapsed - 0.1) / update_interval)
CrossesBoundary(e, update_interval) ==
    Trunc(e, update_interval) > Trunc(e - PROGRESS_INTERVAL, update_interval)

\* lines 1977-1988: one tick of the Phase, up to the yield
Phase_tick ==
    /\ EngineAt("phase_tick", "for_stop_check")
    /\ elapsed' = elapsed + PROGRESS_INTERVAL
    /\ IF instruction.mode = "Fixed"
       THEN /\ rpm_in_phase' = instruction.rpm
            /\ NoPut
       ELSE /\ rpm_in_phase' =
                 RampRpm(start_rpm, instruction.rpm, elapsed', duration_s)
            /\ IF CrossesBoundary(elapsed', instruction.update_interval)
               THEN _send_pump_command("engine", SpeedCommand(rpm_in_phase'))
               ELSE NoPut
    /\ EngineFrame
    /\ UNCHANGED <<pc, cycle_counters, cumulative_time, current_rpm,
                   phase_start_time, duration_s, start_rpm, pause_waited,
                   plan_time>>
    /\ UNCHANGED <<flattenVars, walk, editVars, plotVars, progressVars>>

\* lines 1930-1931: if stop_event.is_set(): break; pause_start_time = now
For_stop_check ==
    /\ epc = "for_stop_check"
    /\ epc' = IF stop_event THEN "after_for" ELSE "for_pause_wait"
    /\ pause_waited' = 0
    /\ NoPut /\ EngineFrame
    /\ UNCHANGED <<pc, cycle_counters, cumulative_time, current_rpm,
                   phase_start_time, elapsed, duration_s, start_rpm,
                   rpm_in_phase, plan_time>>
    /\ UNCHANGED <<flattenVars, walk, editVars, plotVars, progressVars>>

\* line 1932: while pause_event.is_set(): time.sleep(0.1)
For_pause_wait ==
    /\ epc = "for_pause_wait"
    /\ IF pause_event
       THEN /\ pause_waited < MaxWait
            /\ pause_waited' = pause_waited + PROGRESS_INTERVAL
            /\ epc' = "for_pause_wait"
       ELSE /\ epc' = "for_is_paused"
            /\ UNCHANGED pause_waited
    /\ NoPut /\ EngineFrame
    /\ UNCHANGED <<pc, cycle_counters, cumulative_time, current_rpm,
                   phase_start_time, elapsed, duration_s, start_rpm,
                   rpm_in_phase, plan_time>>
    /\ UNCHANGED <<flattenVars, walk, editVars, plotVars, progressVars>>

\* (x / y) * 100 if y > 0 else 100, in 1/100 of a percent
Percent(x, y) == IF y > 0 THEN Trunc(x * 10000, y) ELSE 10000

\* _update_progress_bars (lines 1993-1995): what it computes
_update_progress_bars(elapsed_step, duration_step, time_before, duration_total) ==
    [elapsed_step |-> elapsed_step, duration_step |-> duration_step,
     time_before |-> time_before, duration_total |-> duration_total,
     step_prog |-> Percent(elapsed_step, duration_step),
     total_prog |-> Percent(time_before + elapsed_step, duration_total)]

\* lines 1933-1938: the body of the for loop after the pause wait, and line
\* 1989, which the generator runs when the loop asks for the next sample
For_body ==
    /\ EngineAt("for_is_paused", "phase_while")
    /\ phase_start_time' = IF is_paused THEN phase_start_time + pause_waited
                           ELSE phase_start_time
    /\ cumulative_time' = phase_start_time' + elapsed
    /\ after_calls' = Append(after_calls,
                             [time_pos |-> cumulative_time',
                              rpm_pos |-> rpm_in_phase,
                              direction |-> instruction.direction])
    /\ current_rpm' = rpm_in_phase
    /\ progress' = << _update_progress_bars(elapsed, duration_s,
                          time_before_phase, total_duration_global) >>
    /\ NoPut /\ EngineFrame
    /\ UNCHANGED <<pc, cycle_counters, elapsed, duration_s, start_rpm,
                   rpm_in_phase, pause_waited, plan_time>>
    /\ UNCHANGED <<flattenVars, walk, editVars>>
    /\ UNCHANGED <<total_s, plot_is_live, actual_plot_data,
                   last_plot_direction, time_before_phase,
                   total_duration_global>>

\* line 1991: the final speed command of the Phase
Phase_final ==
    /\ EngineAt("phase_final", "after_for")
    /\ IF ~stop_event
       THEN _send_pump_command("engine", SpeedCommand(instruction.rpm))
       ELSE NoPut
    /\ EngineFrame /\ UNCHANGED engineLocals
    /\ UNCHANGED <<flattenVars, walk, editVars, plotVars, progressVars>>

\* lines 1939-1942
After_for ==
    /\ epc = "after_for"
    /\ IF stop_event
       THEN /\ epc' = "end"
            /\ UNCHANGED <<cumulative_time, pc, plan_time>>
       ELSE /\ epc' = "loop"
            /\ cumulative_time' = phase_start_time + duration_s
            /\ pc' = pc + 1
            /\ plan_time' = plan_time + duration_s
    /\ NoPut /\ EngineFrame
    /\ UNCHANGED <<cycle_counters, current_rpm, phase_start_time, elapsed,
                   duration_s, start_rpm, rpm_in_phase, pause_waited>>
    /\ UNCHANGED <<flattenVars, walk, editVars, plotVars, progressVars>>

\* lines 1952-1955
Worker_end ==
    /\ EngineAt("end", "done")
    /\ IF ~stop_event THEN _send_pump_command("engine", "KH") ELSE NoPut
    /\ finish_pending' = finish_pending + 1
    /\ UNCHANGED <<is_connected, is_running_sequence, is_paused,
                   sequence_data, upc, clicks, limit>>
    /\ UNCHANGED <<workerVars, eventVars, engineLocals>>
    /\ UNCHANGED <<flattenVars, walk, editVars, plotVars, progressVars>>

----------------------------------------------------------------------------
(* Editing the Program: the dialogs, the clipboard, templates and files.    *)
(* The selection of the tree is an input of each handler.                   *)

MaxSteps == 3           \* longest Program built by editing

\* what the operator types into the RPM entry, in 1/10000 RPM
RpmEntries == {-1, 48 * RpmUnit, 48 * RpmUnit + 1}

\* the contents of the sequence files the operator may open: any JSON
\* list, here one written by hand with a Phase of 60 RPM
SequenceFiles ==
    { << Phase("Forward", "Ramp", 60 * RpmUnit, 100, "s", 100, TRUE) >> }

\* ---- json.dump and json.load of a list of dicts ----
\* A file is a list of objects, an object a list of members <<key, text>>
\* in the order of the dict, a text a list of characters (the body of a
\* string is kept whole).

DigitChars == <<"0", "1", "2", "3", "4", "5", "6", "7", "8", "9">>
DigitOf(c) == (CHOOSE d \in 1..10 : DigitChars[d] = c) - 1

\* int.__repr__ of n >= 0
RECURSIVE Digits(_)
Digits(n) ==
    IF n < 10 THEN << DigitChars[n + 1] >>
    ELSE Digits(n \div 10) \o << DigitChars[(n % 10) + 1] >>

\* the digits of the fraction f / scale, 0 <= f < scale, without
\* trailing zeros
RECURSIVE FractionDigits(_, _)
FractionDigits(f, scale) ==
    IF f = 0 \/ scale = 1 THEN << >>
    ELSE << DigitChars[((f * 10) \div scale) + 1] >>
         \o FractionDigits((f * 10) % scale, scale)

\* a repr that keeps the whole part only
FloatReprWhole(x, scale) == Digits(x \div scale) \o << ".", "0" >>

\* the text of a model number x held in 1/scale: float.__repr__ for the
\* fields the dialogs fill with float(...), int.__repr__ for the others
FloatRepr(x, scale) ==
    LET a == IF x < 0 THEN -x ELSE x
        frac == FractionDigits(a % scale, scale)
    IN  (IF x < 0 THEN << "-" >> ELSE << >>)
        \o Digits(a \div scale) \o << "." >>
        \o (IF frac = << >> THEN << "0" >> ELSE frac)
IntRepr(n) ==
    (IF n < 0 THEN << "-" >> ELSE << >>) \o Digits(IF n < 0 THEN -n ELSE n)

\* the unit in which the model holds the number under a key
FieldScale(key) ==
    CASE key = "rpm" -> RpmUnit
      [] key \in {"duration", "update_interval"} -> 1000
      [] OTHER -> 1

\* the keys in the order the dialogs insert them (lines 285-297, 358)
KeyOrder ==
    <<"type", "direction", "mode", "rpm", "duration", "unit", "enabled",
      "update_interval", "start_phase", "end_phase", "repeats">>

\* JSONEncoder: the text of one value
EncodeValue(key, v) ==
    IF key = "enabled" THEN << (IF v THEN "true" ELSE "false") >>
    ELSE IF key \in {"type", "direction", "mode", "unit"}
         THEN << "\"", v, "\"" >>
    ELSE IF FieldScale(key) = 1 THEN IntRepr(v)
    ELSE FloatRepr(v, FieldScale(key))

\* json.dump(self.sequence_data, f, indent=4) (line 2083)
json_dump(seq) ==
    [i \in 1..Len(seq) |->
        LET keys == SelectSeq(KeyOrder, LAMBDA k : k \in DOMAIN seq[i])
        IN  [j \in 1..Len(keys) |->
                << keys[j], EncodeValue(keys[j], seq[i][keys[j]]) >>]]

\* the value of an unsigned run of digits
RECURSIVE DigitsValue(_)
DigitsValue(text) ==
    IF text = << >> THEN 0
    ELSE DigitsValue(SubSeq(text, 1, Len(text) - 1)) * 10
         + DigitOf(text[Len(text)])

RECURSIVE Power10(_)
Power10(n) == IF n = 0 THEN 1 ELSE 10 * Power10(n - 1)

\* JSONDecoder: a number text as a model number in 1/scale
ParseNumber(text, scale) ==
    LET neg == text[1] = "-"
        body == IF neg THEN Tail(text) ELSE text
        dots == {i \in 1..Len(body) : body[i] = "."}
        dot == IF dots = {} THEN Len(body) + 1 ELSE CHOOSE i \in dots : TRUE
        whole == DigitsValue(SubSeq(body, 1, dot - 1))
        fr == SubSeq(body, dot + 1, Len(body))
        value == whole * scale
                 + (DigitsValue(fr) * scale) \div Power10(Len(fr))
    IN  IF neg THEN -value ELSE value

\* JSONDecoder: the value of one text
DecodeValue(key, text) ==
    IF text[1] = "\"" THEN text[2]
    ELSE IF text = << "true" >> THEN TRUE
    ELSE IF text = << "false" >> THEN FALSE
    ELSE ParseNumber(text, FieldScale(key))

\* json.load(f) (line 2066): a dict per object, the last member of a key
\* giving its value
json_load(file) ==
    [i \in 1..Len(file) |->
        LET obj == file[i]
            last(k) == CHOOSE j \in 1..Len(obj) :
                          /\ obj[j][1] = k
                          /\ \A h \in (j + 1)..Len(obj) : obj[h][1] # k
        IN  [k \in {obj[j][1] : j \in 1..Len(obj)} |->
                DecodeValue(k, obj[last(k)][2])]]

\* a file that does not exist, and the file holding a text
NoFile == << >>
FileOf(text) == << text >>
FileNames == {"sequence.json"}
MaxFileOps == 2         \* loads and saves observed

\* AddPhaseDialog.on_ok (lines 280-301) for a Ramp of 0.1 s: the result as
\* a list of one step, empty when the entry is refused (result is None)
AddPhaseDialog(rpm, enabled) ==
    IF 0 <= rpm /\ rpm <= 48 * RpmUnit
    THEN << Phase("Forward", "Ramp", rpm, 100, "s", 100, enabled) >>
    ELSE << >>

\* BatchEditDialog.on_ok (lines 436-452) with only the RPM box ticked: the
\* result as a list of one dict, empty when the entry is refused
BatchEditDialog(rpm) ==
    IF 0 <= rpm /\ rpm <= 48 * RpmUnit THEN << [rpm |-> rpm] >> ELSE << >>

\* the positions of a Program, from 0, and the selections of the tree
Positions(seq) == 0..(Len(seq) - 1)
Selections(seq) == SUBSET Positions(seq)

\* the steps selected, in the order of the tree
Selected(seq, sel) ==
    LET at == SelectSeq([i \in 1..Len(seq) |-> i - 1], LAMBDA p : p \in sel)
    IN  [k \in 1..Len(at) |-> seq[at[k] + 1]]

\* self.sequence_tree.index(sel[0]) if sel else len(self.sequence_data) - 1
SelectionIndex(seq, sel) ==
    IF sel = {} THEN Len(seq) - 1
    ELSE CHOOSE p \in sel : \A r \in sel : p <= r

\* for item in reversed(items): seq.insert(k, item), 0 <= k <= len(seq)
InsertAll(seq, k, items) ==
    SubSeq(seq, 1, k) \o items \o SubSeq(seq, k + 1, Len(seq))

EditFrame ==
    UNCHANGED <<queueVars, workerVars, eventVars, engineVars, walk,
                flattenVars, is_connected, is_running_sequence, is_paused,
                upc, finish_pending, clicks, limit, plot_is_live,
                actual_plot_data, last_plot_direction, after_calls,
                progressVars>>

\* _update_treeview (line 1655): the duration label follows the Program
UpdateTreeview == total_s' = _calculate_total_duration(sequence_data', FALSE)

\* _add_phase (lines 1481-1486)
AddPhase ==
    /\ upc = "idle" /\ Len(sequence_data) < MaxSteps
    /\ \E rpm \in RpmEntries :
         LET result == AddPhaseDialog(rpm, TRUE)
         IN  sequence_data' = sequence_data \o result
    /\ UNCHANGED editVars /\ UpdateTreeview /\ EditFrame

\* _edit_item (lines 1496-1517) on a Phase
EditItem ==
    /\ upc = "idle" /\ ~is_running_sequence
    /\ \E idx \in Positions(sequence_data), rpm \in RpmEntries :
         LET data == sequence_data[idx + 1]
             result == AddPhaseDialog(rpm, data.enabled)
         IN  /\ data.type = "Phase"
             /\ sequence_data' =
                    IF result # << >>
                    THEN [sequence_data EXCEPT ![idx + 1] = result[1]]
                    ELSE sequence_data
    /\ UNCHANGED editVars /\ UpdateTreeview /\ EditFrame

\* _batch_edit_items (lines 1600-1615)
BatchEditItems ==
    /\ upc = "idle"
    /\ \E sel \in Selections(sequence_data), rpm \in RpmEntries :
         LET phase_indices ==
                 {p \in sel : sequence_data[p + 1].type = "Phase"}
             result == BatchEditDialog(rpm)
         IN  /\ phase_indices # {}
             /\ sequence_data' =
                    IF result # << >>
                    THEN [i \in 1..Len(sequence_data) |->
                            IF (i - 1) \in phase_indices
                            THEN [sequence_data[i] EXCEPT
                                     !.rpm = result[1].rpm]
                            ELSE sequence_data[i]]
                    ELSE sequence_data
    /\ UNCHANGED editVars /\ UpdateTreeview /\ EditFrame

\* _copy_item (lines 1562-1567)
CopyItem ==
    /\ upc = "idle"
    /\ \E sel \in Selections(sequence_data) \ {{}} :
         clipboard' = Selected(sequence_data, sel)
    /\ UNCHANGED <<sequence_data, templates, total_s, fileVars>> /\ EditFrame

\* _paste_item (lines 1569-1578)
PasteItem ==
    /\ upc = "idle" /\ clipboard # << >>
    /\ Len(sequence_data) + Len(clipboard) <= MaxSteps
    /\ \E sel \in Selections(sequence_data) :
         sequence_data' =
             InsertAll(sequence_data,
                       SelectionIndex(sequence_data, sel) + 1, clipboard)
    /\ UNCHANGED editVars /\ UpdateTreeview /\ EditFrame

\* _save_selection_as_template (lines 2094-2116), one template name
SaveSelectionAsTemplate ==
    /\ upc = "idle"
    /\ \E sel \in Selections(sequence_data) \ {{}} :
         templates' = Selected(sequence_data, sel)
    /\ UNCHANGED <<sequence_data, clipboard, total_s, fileVars>> /\ EditFrame

\* _insert_template (lines 2118-2131)
InsertTemplate ==
    /\ upc = "idle" /\ templates # << >>
    /\ Len(sequence_data) + Len(templates) <= MaxSteps
    /\ \E sel \in Selections(sequence_data) :
         sequence_data' =
             InsertAll(sequence_data,
                       SelectionIndex(sequence_data, sel) + 1, templates)
    /\ UNCHANGED editVars /\ UpdateTreeview /\ EditFrame

\* _load_sequence (lines 2062-2076): self.sequence_data = json.load(f);
\* a file that cannot be opened changes nothing
LoadSequence ==
    /\ upc = "idle"
    /\ Len(file_ops) < MaxFileOps
    /\ \E filepath \in FileNames :
         /\ files[filepath] # NoFile
         /\ sequence_data' = json_load(files[filepath][1])
         /\ current_filepath' = filepath
         /\ file_ops' = Append(file_ops,
                               [op |-> "load", program |-> sequence_data',
                                text |-> files[filepath][1]])
    /\ UNCHANGED <<clipboard, templates, files>>
    /\ UpdateTreeview /\ EditFrame

\* _save_sequence (lines 2078-2090), through _save_sequence_as (lines
\* 2092-2097) while current_filepath is empty
SaveSequence ==
    /\ upc = "idle"
    /\ Len(file_ops) < MaxFileOps
    /\ \E fp \in FileNames :
         /\ current_filepath # "" => fp = current_filepath
         /\ current_filepath' = fp
         /\ files' = [files EXCEPT ![fp] = FileOf(json_dump(sequence_data))]
         /\ file_ops' = Append(file_ops,
                               [op |-> "save", program |-> sequence_data,
                                text |-> json_dump(sequence_data)])
    /\ UNCHANGED <<sequence_data, clipboard, templates, total_s>>
    /\ EditFrame

EditNext ==
    \/ AddPhase \/ EditItem \/ BatchEditItems \/ CopyItem \/ PasteItem
    \/ SaveSelectionAsTemplate \/ InsertTemplate \/ LoadSequence

----------------------------------------------------------------------------
(* Specifications *)

\* PumpControlUI.__init__ (lines 649-660), with a Program loaded, for an
\* operator who does at most lim
FreshOn(lim, programs, disks) ==
    /\ command_queue = << >> /\ result_queue = << >>
    /\ ser = None /\ ports = << >> /\ worker = "running"
    /\ portLog = << >> /\ resLog = << >> /\ processed = << >> /\ sent = << >>
    /\ is_connected = FALSE /\ is_running_sequence = FALSE
    /\ is_paused = FALSE
    /\ stop_event = FALSE /\ pause_event = FALSE
    /\ sequence_data \in programs
    /\ upc = "idle" /\ finish_pending = 0
    /\ clicks = [total |-> 0, run |-> 0]
    /\ limit = lim
    /\ epc = "none"
    /\ pc = 0 /\ cycle_counters = << >> /\ cumulative_time = 0
    /\ current_rpm = 0 /\ phase_start_time = 0 /\ elapsed = 0
    /\ duration_s = 0 /\ start_rpm = 0 /\ rpm_in_phase = 0
    /\ pause_waited = 0 /\ plan_time = 0
    /\ walk = << >>
    /\ NoFlatten
    /\ clipboard = << >> /\ templates = << >>
    /\ current_filepath = "" /\ files \in disks /\ file_ops = << >>
    /\ total_s = _calculate_total_duration(sequence_data, FALSE)
    /\ plot_is_live = FALSE /\ actual_plot_data = NoPlotData
    /\ last_plot_direction = NoDirection /\ after_calls = << >>
    /\ time_before_phase = 0 /\ total_duration_global = 0
    /\ progress = << >>

\* the file system at start: every file name holds a hand-written file
SequenceDisks ==
    { [f \in FileNames |-> FileOf(json_dump(p))] : p \in SequenceFiles }

Fresh(lim, programs) == FreshOn(lim, programs, SequenceDisks)

\* the whole system: operator, sequence thread and controller thread
\* all three threads on a device that does not fault (faults are explored
\* with the controller thread alone, from InitTransport)
Init ==
    Fresh([clicks |-> AllClicks, faults |-> 0, ports |-> PortNames,
           unit_ids |-> {30}],
          {SmallProgram})

\* the operator and the controller thread, no run
InitTransport ==
    Fresh([clicks |-> MaxClicks, faults |-> MaxFaults, ports |-> PortNames,
           unit_ids |-> UnitIds],
          {<< >>})

\* The state after Connect on COM3 with unit id 30 was answered by the echo
\* and the SR that follows it was written: connected, nothing queued.
Connect0 == [action |-> "connect", port |-> "COM3", unit_id |-> 30,
             baudrate |-> 19200, command_str |-> "", id |-> 1, by |-> "ui",
             at |-> "idle", run |-> 0]
Remote0 == [action |-> "send_command", port |-> "", unit_id |-> 0,
            baudrate |-> 0, command_str |-> "SR", id |-> 2, by |-> "ui",
            at |-> "idle", run |-> 0]
Connected0 ==
    LET R1 == _connect(ControllerThread, Connect0, [DevOk EXCEPT !.rd = 158],
                       [ser |-> None, ports |-> << >>, log |-> << >>])
    IN  _send_command(ControllerThread, Remote0, DevOk,
                      [ser |-> R1.ser, ports |-> R1.ports, log |-> R1.log])

\* a connected pump with one of the given Programs loaded, for an operator
\* who clicks at most n more times
Connected(programs, n) ==
    /\ command_queue = << >> /\ result_queue = << >>
    /\ ser = Connected0.ser /\ ports = Connected0.ports /\ worker = "running"
    /\ portLog = Connected0.log /\ resLog = <<Result("connected", 1)>>
    /\ processed = <<1, 2>> /\ sent = <<Connect0, Remote0>>
    /\ is_connected = TRUE /\ is_running_sequence = FALSE
    /\ is_paused = FALSE
    /\ stop_event = FALSE /\ pause_event = FALSE
    /\ sequence_data \in programs
    /\ upc = "idle" /\ finish_pending = 0
    /\ clicks = [total |-> 1, run |-> 0]
    /\ limit = [clicks |-> 1 + n, faults |-> 0, ports |-> PortNames,
                unit_ids |-> {30}]
    /\ epc = "none"
    /\ pc = 0 /\ cycle_counters = << >> /\ cumulative_time = 0
    /\ current_rpm = 0 /\ phase_start_time = 0 /\ elapsed = 0
    /\ duration_s = 0 /\ start_rpm = 0 /\ rpm_in_phase = 0
    /\ pause_waited = 0 /\ plan_time = 0
    /\ walk = << >>
    /\ NoFlatten
    /\ clipboard = << >> /\ templates = << >>
    /\ current_filepath = "" /\ files \in SequenceDisks /\ file_ops = << >>
    /\ total_s = _calculate_total_duration(sequence_data, FALSE)
    /\ plot_is_live = FALSE /\ actual_plot_data = NoPlotData
    /\ last_plot_direction = NoDirection /\ after_calls = << >>
    /\ time_before_phase = 0 /\ total_duration_global = 0
    /\ progress = << >>

\* the operator edits a Program that is empty or was recovered from the
\* backup of the last session (_check_for_recovery, lines 725-739)
InitEdit ==
    Fresh([clicks |-> 0, faults |-> 0, ports |-> PortNames,
           unit_ids |-> {30}],
          { << >>, AddPhaseDialog(48 * RpmUnit, TRUE) })

\* the operator and the sequence thread on a connected pump
InitEngine == Connected(Programs, RunClicks)

\* one run, never stopped, of a Program whose plan is also drawn
InitFlatten == Connected(FlatPrograms, 1)

UiNext ==
    \/ ConnectPump \/ DisconnectPump \/ DisconnectPump_put \/ ProcessResults
    \/ OnClosing \/ OnClosing_disconnect \/ OnClosing_stop_thread
    \/ OnClosing_set

RunNext ==
    \/ RunSequence \/ StopSequence \/ StopSequence_kh \/ StopSequence_set
    \/ StopSequence_clear \/ OnSequenceFinish

PauseNext ==
    \/ PauseResume \/ PauseResume_set \/ PauseResume_kh
    \/ PauseResume_clear

EngineNext ==
    \/ Worker_start \/ Worker_while \/ Worker_pause_check \/ Worker_dispatch
    \/ Phase_direction \/ Phase_setup \/ Phase_while \/ Phase_wait
    \/ Phase_tick \/ For_stop_check \/ For_pause_wait \/ For_body
    \/ Phase_final \/ After_for \/ Worker_end

TransportNext ==
    \/ Run_connect \/ Run_disconnect \/ Run_send_command \/ Run_stop_thread
    \/ Finalize

Next == UiNext \/ RunNext \/ EngineNext \/ TransportNext

Spec == Init /\ [][Next]_vars

SpecTransport == InitTransport /\ [][UiNext \/ TransportNext]_vars

\* the whole system from a connected pump
ReconnectClicks == 3
InitReconnect == Connected({SmallProgram}, ReconnectClicks)
SpecReconnect == InitReconnect /\ [][Next]_vars

SpecEngine == InitEngine /\ [][RunNext \/ PauseNext \/ EngineNext]_vars

\* the sequence thread, followed for MaxWalk Phases and jumps
WalkNext == Len(walk) < MaxWalk /\ EngineNext

SpecEdit == InitEdit /\ [][EditNext]_vars

\* one run, with the Edit menu's Batch Edit (line 939, never disabled)
\* used while the sequence thread works; the handler assigns into the
\* dicts of the Program, which the thread holds by reference
InitRunEdit == Connected(Programs, 1)
SpecRunEdit ==
    InitRunEdit /\ [][RunSequence \/ OnSequenceFinish \/ EngineNext
                        \/ BatchEditItems]_vars

\* runs followed to their end, the operator pausing and resuming: Cycles
\* nested, overlapping, self-targeting, jumping forward, and with targets
\* before and behind the Program.  The sequence thread is scheduled as
\* long as it can take a step, and Tk runs a handler it has entered, and
\* a callback posted with after(0, ...), to its end.
EndClicks == 3
EndPrograms ==
    { << Pa(TRUE), Cycle(1, 1, 1, TRUE), Pb(TRUE), Cycle(1, 3, 1, TRUE) >>,
      << Pa(TRUE), Pb(TRUE), Cycle(1, 2, 1, TRUE), Cycle(2, 3, 1, TRUE) >>,
      << Pa(TRUE), Cycle(2, 2, 2, TRUE) >>,
      << Cycle(3, 3, 1, TRUE), Pa(TRUE), Pb(TRUE) >>,
      << Pa(TRUE), Cycle(0, 0, 1, TRUE) >>,
      << Pa(TRUE), Cycle(5, 5, 1, TRUE) >>,
      << Pa(TRUE), Cycle(-2, -2, 1, TRUE) >> }
InitEnd == Connected(EndPrograms, EndClicks)
EndNext == RunSequence \/ OnSequenceFinish \/ PauseNext \/ EngineNext
\* Phase_setup is enabled exactly when the thread is at phase_setup, and
\* it leaves that position: its weak fairness is written by that condition
EngineOther ==
    \/ Worker_start \/ Worker_while \/ Worker_pause_check \/ Worker_dispatch
    \/ Phase_direction \/ Phase_while \/ Phase_wait
    \/ Phase_tick \/ For_stop_check \/ For_pause_wait \/ For_body
    \/ Phase_final \/ After_for \/ Worker_end
SpecEnd ==
    /\ InitEnd /\ [][EndNext]_vars
    /\ WF_vars(EngineOther)
    /\ []<>(epc # "phase_setup")
    /\ WF_vars(PauseResume_set \/ PauseResume_kh \/ PauseResume_clear)
    /\ WF_vars(OnSequenceFinish)

\* saving and loading: Programs as the dialogs build them (a Fixed Phase
\* has no update_interval), and a disk that is empty or holds a file
\* written by hand: numbers as 12.50 and 60, keys in another order, a key
\* given twice
MaxFileSteps == 2
FileSteps ==
    { Phase("Forward", "Ramp", 6666, 1500, "s", 250, TRUE),
      [type |-> "Phase", direction |-> "Backward", mode |-> "Fixed",
       rpm |-> 48 * RpmUnit, duration |-> 30000, unit |-> "min",
       enabled |-> FALSE],
      Cycle(1, 1, 2, TRUE),
      Cycle(1, 2, 10, FALSE) }
FilePrograms == UNION { [1..n -> FileSteps] : n \in 0..MaxFileSteps }
HandWritten ==
    << << <<"enabled", <<"false">> >>,
          <<"type", <<"\"", "Phase", "\"">> >>,
          <<"rpm", <<"1", "2", ".", "5", "0">> >>,
          <<"duration", <<"6", "0">> >>,
          <<"unit", <<"\"", "min", "\"">> >>,
          <<"direction", <<"\"", "Forward", "\"">> >>,
          <<"mode", <<"\"", "Fixed", "\"">> >>,
          <<"enabled", <<"true">> >> >>,
       << <<"type", <<"\"", "Cycle", "\"">> >>,
          <<"repeats", <<"3">> >>,
          <<"end_phase", <<"1">> >>,
          <<"start_phase", <<"1">> >>,
          <<"enabled", <<"true">> >> >> >>
FileDisks == [FileNames -> {NoFile, FileOf(HandWritten)}]
InitFile ==
    FreshOn([clicks |-> 0, faults |-> 0, ports |-> PortNames,
             unit_ids |-> {30}],
            FilePrograms, FileDisks)
SpecFile == InitFile /\ [][SaveSequence \/ LoadSequence \/ AddPhase]_vars

\* runs that are paused and resumed but never stopped
PhaseClicks == 3
InitPhases == Connected(PhasePrograms, PhaseClicks)
SpecPhases ==
    InitPhases /\ [][RunSequence \/ OnSequenceFinish \/ PauseNext
                       \/ EngineNext \/ UpdateActualPlot]_vars

\* the duration label for every Program of the given steps
InitDuration ==
    Fresh([clicks |-> 0, faults |-> 0, ports |-> PortNames,
           unit_ids |-> {30}],
          DurationPrograms)
SpecDuration == InitDuration /\ [][UpdateTotalDuration]_vars

SpecFlatten ==
    InitFlatten /\ [][UpdatePlot \/ RunSequence \/ WalkNext
                      \/ OnSequenceFinish]_vars

----------------------------------------------------------------------------
(* Properties of the sequence thread against Stop and Pause *)

\* sent is the whole history of the command queue, in put order
Puts == 1..Len(sent)

\* C1: the halt command (KH) that Stop puts is not followed in the command
\* queue by a run-direction command (K> or K<) of the same run, whatever the
\* sequence thread was doing when Stop was clicked.
C1_StopHalts ==
    \A i, j \in Puts :
        (/\ i < j
         /\ sent[i].by = "ui" /\ sent[i].at = "stop_kh"
         /\ sent[j].by = "engine" /\ sent[j].run = sent[i].run)
        => sent[j].command_str \notin {"K>", "K<"}

\* the pause is in force: Pause has set the flag and the event and put its
\* KH, and neither Resume nor Stop has been clicked since
PauseInForce ==
    is_paused /\ pause_event /\ ~stop_event /\ upc # "pause_kh"

\* C2: from the KH of Pause until Resume the sequence thread puts no command
\* (no K>, K<, R...) into the command queue.
C2_PauseSilent ==
    [][(PauseInForce /\ Len(sent') > Len(sent))
         => sent'[Len(sent')].by # "engine"]_vars

\* the sequence thread has seen the pause: it sits in one of its three waits
\* (lines 1910-1912, 1932, 1973-1975) with the event set
EnginePaused ==
    /\ pause_event
    /\ epc \in {"loop", "pause_check", "for_pause_wait", "phase_while",
                "phase_wait"}

\* the ticks an unpaused run of a Phase of duration d makes
TicksOf(d) == (d + PROGRESS_INTERVAL - 1) \div PROGRESS_INTERVAL

\* C3: while the sequence thread is paused, elapsed, pc and cumulative_time
\* do not change; a Phase that runs to its end ends at the elapsed value of
\* an unpaused run, and cumulative_time after it is what an unpaused run
\* has there (plan_time), however many pauses fell inside it.
C3_PauseInvariant ==
    [][/\ (EnginePaused /\ pause_event')
            => UNCHANGED <<elapsed, pc, cumulative_time>>
       /\ (epc = "phase_while" /\ epc' = "phase_final" /\ ~stop_event)
            => elapsed = TicksOf(duration_s) * PROGRESS_INTERVAL
       /\ (epc = "after_for" /\ epc' = "loop")
            => cumulative_time' = plan_time']_vars

----------------------------------------------------------------------------
(* Properties of the controller thread and the port *)

Range(f) == {f[i] : i \in DOMAIN f}

\* the port operations and the results a command caused, in order
OpsOf(c) == SelectSeq(portLog, LAMBDA o : o.cmd = c)
ResOf(c) == SelectSeq(resLog, LAMBDA r : r.cmd = c)

\* the commands of one action that the controller thread has taken
Processed(action) == {c \in Range(processed) : sent[c].action = action}
LastProcessed == processed[Len(processed)]

OpKinds == {portLog[i].op : i \in DOMAIN portLog}
PutBy(t) == {c \in Range(processed) : sent[c].by = t}

\* C4: every open, write, read and close of the port is done by the
\* controller thread; a step of the Tk thread or of the sequence thread (a
\* step in which the controller thread takes no command) leaves the handle
\* and the port's operations alone.
C4_WorkerOwnsPort ==
    [][/\ \A i \in DOMAIN portLog' : portLog'[i].by = "worker"
       /\ processed' = processed => UNCHANGED <<ser, portLog>>]_vars

\* C4's case: commands put by the Tk thread and by the sequence thread have
\* both reached the port, which has been opened, written, read and closed
C4_Witness ==
    /\ OpKinds = {"open", "write", "read", "close"}
    /\ \E i, j \in DOMAIN portLog :
         /\ sent[portLog[i].cmd].by = "ui"
         /\ sent[portLog[j].cmd].by = "engine"

\* C5: commands are processed one at a time in the order of their puts: the
\* commands taken followed by the commands still queued are exactly the
\* puts in order (none lost, none taken twice), and the port operations and
\* the results appear in the order of the commands that caused them.
C5_Fifo ==
    /\ processed \o [i \in DOMAIN command_queue |-> command_queue[i].id]
         = [i \in Puts |-> i]
    /\ \A i, j \in DOMAIN portLog : i < j => portLog[i].cmd <= portLog[j].cmd
    /\ \A i, j \in DOMAIN resLog : i < j => resLog[i].cmd <= resLog[j].cmd
    /\ \A i \in DOMAIN portLog : portLog[i].cmd \in Range(processed)
    /\ \A i \in DOMAIN resLog : resLog[i].cmd \in Range(processed)

\* C5's case: commands of both threads waited in the queue together and
\* commands of both threads have been taken
C5_Witness ==
    /\ PutBy("ui") # {} /\ PutBy("engine") # {}
    /\ \E i, j \in DOMAIN command_queue :
         command_queue[i].by = "ui" /\ command_queue[j].by = "engine"

\* the bytes read(1) gave for connect c, << >> for none
EchoOf(c) == IF Len(OpsOf(c)) >= 4 THEN OpsOf(c)[4].bytes ELSE << >>
NoFault(c) == \A k \in DOMAIN OpsOf(c) : OpsOf(c)[k].ok

\* C6: a connect with unit_id u opens the port, writes 255, writes u + 128
\* and reads one byte, in this order and on the port it opened (all four
\* when no operation faults and u + 128 is a byte); the result is connected,
\* with the port open and held, exactly when the byte read is u + 128; for
\* another byte or none the result is error, the port is closed and the
\* handle is None.
C6_Handshake ==
    \A c \in Processed("connect") :
        LET o == OpsOf(c)
            u == sent[c].unit_id
            answered == Len(o) >= 4 /\ o[4].ok
        IN  /\ Len(o) >= 1 /\ Len(o) <= 5
            /\ o[1].op = "open"
            /\ Len(o) >= 2 => o[2].op = "write" /\ o[2].bytes = <<255>>
            /\ Len(o) >= 3 => o[3].op = "write" /\ o[3].bytes = <<u + 128>>
            /\ Len(o) >= 4 => o[4].op = "read"
            /\ Len(o) >= 5 => o[5].op = "close"
            /\ \A k \in 2..Len(o) : o[k].port = o[1].port
            /\ (NoFault(c) /\ IsByte(u + 128)) => Len(o) >= 4
            /\ ResOf(c) = <<Result("connected", c)>>
                 <=> (answered /\ EchoOf(c) = <<u + 128>>)
            /\ (answered /\ EchoOf(c) = <<u + 128>> /\ LastProcessed = c)
                 => ser = o[1].port /\ ports[ser].is_open
            /\ (answered /\ EchoOf(c) # <<u + 128>>)
                 => /\ ResOf(c) = <<Result("error", c)>>
                    /\ Len(o) = 5
                    /\ o[5].ok => ~ports[o[1].port].is_open
                    /\ LastProcessed = c => ser = None

\* C6's case: one connect was answered with its connect byte and another
\* with a different byte or none
C6_Witness ==
    \E c, d \in Processed("connect") :
        /\ ResOf(c) = <<Result("connected", c)>>
        /\ Len(OpsOf(d)) = 5 /\ NoFault(d)
        /\ ResOf(d) = <<Result("error", d)>>

\* C7: every connect (any port, any unit_id of the entry) gets exactly one
\* result, connected or error, and leaves the controller thread running.
C7_ConnectAnswered ==
    \A c \in Processed("connect") :
        /\ Len(ResOf(c)) = 1
        /\ ResOf(c)[1].status \in {"connected", "error"}
        /\ LastProcessed = c => worker = "running"

\* C8: after a connect that ended in error the port that attempt opened is
\* not open and the handle is None.
C8_ErrorLeavesClosed ==
    \A c \in Processed("connect") :
        (LastProcessed = c /\ ResOf(c) = <<Result("error", c)>>)
        => /\ ser = None
           /\ OpsOf(c)[1].ok => ~ports[OpsOf(c)[1].port].is_open

\* C9: a send_command whose port write faults gets an error result and
\* leaves the controller thread running.
C9_WriteFaultReported ==
    \A c \in Processed("send_command") :
        (\E k \in DOMAIN OpsOf(c) : ~OpsOf(c)[k].ok)
        => /\ ResOf(c) = <<Result("error", c)>>
           /\ LastProcessed = c => worker = "running"

OpenPorts == {p \in DOMAIN ports : ports[p].is_open}

\* C10: at most one port is open and every open port is the one the handle
\* refers to, also after connects that follow one another (stated for the
\* runs in which no port operation faulted).
C10_OnePort ==
    FaultsIn(portLog) = 0
    => /\ Cardinality(OpenPorts) <= 1
       /\ \A p \in OpenPorts : p = ser

----------------------------------------------------------------------------
(* Properties of the expansion of the Program and of the run against it *)

\* the positions of the Phases of a walk, in the order entered
PhasesOf(w) ==
    LET sel == SelectSeq(w, LAMBDA e : e.type = "Phase")
    IN  [i \in 1..Len(sel) |-> sel[i].at]

\* the run has ended without a Stop
RunEnded == epc \in {"done", "crashed"} /\ ~stop_event

\* C11: for every Program, the Phases that a never-stopped run has executed
\* when it ends are the Phases that _flatten_sequence_for_plot returned for
\* the enabled steps of the same Program: the same Phases, in the same
\* order, the same number of times.
C11_RunFollowsPlan ==
    (RunEnded /\ plan.at = "returned") => PhasesOf(walk) = plan.flat_list

\* the positions, from 0, of the enabled steps of a Program, in order
EnabledPositions(seq) ==
    SelectSeq([i \in 1..Len(seq) |-> i - 1], LAMBDA p : seq[p + 1].enabled)

NoCycle(seq) == \A i \in 1..Len(seq) : seq[i].type = "Phase"

\* a call for the enabled steps has ended
EnabledCallEnded ==
    /\ plan.at \in {"returned", "raised"}
    /\ ~plan.include_disabled /\ ~plan.only_disabled

LoopsBack(seq) ==
    {q \in 0..(Len(seq) - 1) :
        /\ seq[q + 1].type = "Cycle" /\ seq[q + 1].enabled
        /\ 0 <= seq[q + 1].start_phase - 1 /\ seq[q + 1].start_phase - 1 <= q}

\* every Cycle that the call proceeded past had taken its jump exactly
\* repeats times since its counter was created
PassedAfterRepeats ==
    \A k \in 1..Len(plan.passed) :
        plan.passed[k].jumps = Item(sequence_data, plan.passed[k].at).repeats

\* how often position p is in the plan
TimesIn(list, p) == Cardinality({k \in 1..Len(list) : list[k] = p})

\* the only enabled Cycle of the Program loops back
OneLoop(seq) ==
    /\ Cardinality(LoopsBack(seq)) = 1
    /\ \A i \in 1..Len(seq) :
          (seq[i].type = "Cycle" /\ seq[i].enabled) => (i - 1) \in LoopsBack(seq)

\* the enabled Phases from start_phase to the Cycle are in the plan once
\* more than the Cycle repeats, the other enabled Phases once
BodyRepeated(seq, list) ==
    LET q == CHOOSE x \in LoopsBack(seq) : TRUE
        c == seq[q + 1]
    IN  \A p \in 0..(Len(seq) - 1) :
            (seq[p + 1].type = "Phase" /\ seq[p + 1].enabled)
                => TimesIn(list, p) =
                       IF c.start_phase - 1 <= p /\ p < q
                       THEN c.repeats + 1 ELSE 1

\* C13 as stated: an enabled Cycle with repeats n and a valid start_phase at
\* or before it, once reached without a counter, takes its jump exactly n
\* times and then is passed: when the call has ended no such Cycle is left
\* with a counter, and every Cycle passed had jumped n times.
C13_LoopCompletes ==
    plan.at \in {"returned", "raised"}
        => /\ PassedAfterRepeats
           /\ DOMAIN plan.cycle_counters \cap LoopsBack(sequence_data) = {}

\* C13 amended: the call never proceeds past an enabled Cycle before that
\* Cycle has taken its jump exactly n times since its counter was created;
\* and when the Cycle is the only enabled Cycle of the Program and the call
\* for the enabled steps returns, the enabled Phases from start_phase to the
\* Cycle are in the plan n + 1 times. (A Cycle is left unfinished when
\* the ceiling is reached or another Cycle jumps out of its body.)
C13_LoopRepeats ==
    plan.at \in {"returned", "raised"}
        => /\ PassedAfterRepeats
           /\ (EnabledCallEnded /\ plan.at = "returned"
                /\ OneLoop(sequence_data))
                  => BodyRepeated(sequence_data, plan.flat_list)

\* a plan in which a Phase is repeated by the only Cycle of the Program
C13_Witness ==
    /\ EnabledCallEnded /\ plan.at = "returned"
    /\ OneLoop(sequence_data)
    /\ Len(plan.passed) = 1 /\ plan.passed[1].jumps = 2
    /\ \E p \in 0..(Len(sequence_data) - 1) : TimesIn(plan.flat_list, p) = 3

\* the call reached, at position q, a Cycle whose start_phase names no step
ReachedInvalidTarget(q) ==
    /\ q \in DOMAIN plan.cycle_counters
    /\ ~ValidTarget(sequence_data, Item(sequence_data, q).start_phase - 1)

\* C14: a call that reaches an enabled Cycle whose start_phase is outside
\* the Program fails; it does not return a list of Phases to its caller.
C14_InvalidTargetFails ==
    (\E q \in 0..(Len(sequence_data) - 1) : ReachedInvalidTarget(q))
        => plan.at # "returned"

\* C15: every call ends, and it ends by raising exactly when the expansion
\* needs more than MAX_ITER counted steps: a call that raised had steps
\* left to expand (one that ran off the end of the Program within MAX_ITER
\* steps, also with exactly MAX_ITER, returned), and a call that returned
\* counted at most MAX_ITER steps.
C15_OverflowBeyondCeiling ==
    /\ plan.at \in {"idle", "returned", "raised"}
    /\ plan.at = "raised" => plan.pc < Len(sequence_data)
    /\ plan.at = "returned" => plan.iterations <= MAX_ITER

\* the commands put by the sequence thread after the first n of the queue
EnginePutsAfter(n) == {i \in Puts : i > n /\ sent[i].by = "engine"}

\* C16: when the run takes a Cycle jump whose target is outside the Program,
\* the run ends there as a stop: the thread does not crash, enters no
\* further step, and puts no further command (so neither a further Phase
\* nor the KH of a normal completion).
C16_InvalidJumpStops ==
    \A k \in 1..Len(walk) :
        (walk[k].type = "Cycle" /\ ~ValidTarget(sequence_data, walk[k].to))
            => /\ k = Len(walk)
               /\ epc # "crashed"
               /\ EnginePutsAfter(walk[k].puts) = {}

\* the expansion for the enabled steps raised with steps left to expand
Runaway ==
    /\ plan.at = "raised" /\ ~plan.include_disabled
    /\ plan.pc < Len(sequence_data)

\* C17: a Program whose expansion for the enabled steps exceeds the ceiling
\* is not run: no sequence thread is started for it and the sequence
\* thread puts no command.
C17_RunawayNotRun == Runaway => (epc = "none" /\ EnginePutsAfter(0) = {})

----------------------------------------------------------------------------
(* Properties of the Program under editing *)

\* C18: no Phase whose target RPM is outside [0, 48] is in the Program,
\* whichever way its steps came in: dialogs, batch edit, paste, template,
\* file or recovery.
C18_RpmInRange ==
    \A i \in 1..Len(sequence_data) :
        sequence_data[i].type = "Phase"
            => (0 <= sequence_data[i].rpm
                /\ sequence_data[i].rpm <= 48 * RpmUnit)

----------------------------------------------------------------------------
(* Properties of the start and the end of a run *)

\* the controller thread holds an open port that no queued command is
\* about to close
DeviceConnected ==
    /\ ser # None /\ ports[ser].is_open
    /\ \A i \in 1..Len(command_queue) :
          command_queue[i].action \notin {"disconnect", "stop_thread"}

\* C19: a step that starts a sequence thread is taken only while the device
\* is connected and the Program has an enabled step; a Run request in any
\* other state starts no thread.
C19_RunsOnlyConnected ==
    [][(epc # "start" /\ epc' = "start")
          => (DeviceConnected /\ AnyEnabled(sequence_data))]_vars

\* the sequence thread is in the wait of line 1932 and the pause flag is set
WaitsOnPause == epc = "for_pause_wait" /\ pause_event

\* C20: once the stop signal is raised the sequence thread is never left
\* waiting on the pause flag: with stop_event set and no handler of the
\* operator under way, the thread is not in the wait of line 1932 with
\* pause_event set (a wait that nothing but a further Resume click ends).
C20_StopEndsRun ==
    (stop_event /\ upc \in {"idle", "closed"}) => ~WaitsOnPause

----------------------------------------------------------------------------
(* Properties of the shutdown *)

StopThreadEnqueued ==
    \E i \in 1..Len(sent) : sent[i].action = "stop_thread"

\* C21: on shutdown stop_thread is never enqueued before the sequence
\* thread has been signalled to stop: whenever a stop_thread command has
\* been put while a sequence thread is alive, stop_event is set.
C21_StopSignalFirst == (StopThreadEnqueued /\ ThreadAlive) => stop_event

----------------------------------------------------------------------------
(* Properties of the speed during a Phase *)

Min(a, b) == IF a <= b THEN a ELSE b
Between(x, a, b) == (a <= x /\ x <= b) \/ (b <= x /\ x <= a)

\* the sequence thread holds a sample of the Phase: a tick was made and
\* the loop of line 1929 has not gone round again
AtSample == epc \in {"for_stop_check", "for_pause_wait", "for_is_paused"}

\* C22: in a Ramp Phase every sample is start_rpm + (target - start_rpm) *
\* (e / duration) with e the elapsed time, never more than the duration,
\* and so lies between start_rpm and the target; in a Fixed Phase every
\* sample is the target.
C22_RampWithinRange ==
    AtSample =>
        IF instruction.mode = "Ramp"
        THEN /\ rpm_in_phase = start_rpm
                    + Trunc((instruction.rpm - start_rpm)
                               * Min(elapsed, duration_s), duration_s)
             /\ Between(rpm_in_phase, start_rpm, instruction.rpm)
        ELSE rpm_in_phase = instruction.rpm

\* C23: the step that completes a Phase without a stop (lines 1940-1942)
\* moves pc past the Phase and leaves current_rpm at the target of the
\* Phase, whatever its mode and duration.
C23_PhaseEndsAtTarget ==
    [][(epc = "after_for" /\ epc' = "loop")
          => (pc' = pc + 1 /\ current_rpm' = instruction.rpm)]_vars

----------------------------------------------------------------------------
(* Properties of the total planned duration *)

\* the duration of one segment in seconds (here in ms): s x 1, min x 60,
\* hr x 3600
SegmentSeconds(step) ==
    IF step.unit = "min" THEN step.duration * 60
    ELSE IF step.unit = "hr" THEN step.duration * 3600
    ELSE step.duration

RECURSIVE SumOfSegments(_, _)
SumOfSegments(seq, flat) ==
    IF flat = << >> THEN 0
    ELSE SegmentSeconds(Item(seq, Head(flat))) + SumOfSegments(seq, Tail(flat))

TwoMinutesThenThirtySeconds ==
    << Phase("Forward", "Fixed", 12 * RpmUnit, 2000, "min", 1000, TRUE),
       Phase("Backward", "Ramp", 6 * RpmUnit, 30000, "s", 1000, TRUE) >>

\* C24: whenever the expansion of the enabled steps returns, the total
\* planned duration is the sum of the durations, in seconds, of the
\* segments it returns, each repetition counted and no disabled step among
\* them; a Phase of 2 min followed by a Phase of 30 s gives 150 s.
C24_TotalIsSumOfSegments ==
    LET f == Flatten(sequence_data, FALSE, FALSE)
    IN  /\ f.at = "returned" =>
              /\ total_s = SumOfSegments(sequence_data, f.flat_list)
              /\ \A i \in 1..Len(f.flat_list) :
                    Item(sequence_data, f.flat_list[i]).enabled
        /\ sequence_data = TwoMinutesThenThirtySeconds => total_s = 150000

\* the label was computed for a Program in which a Phase of 30 s is
\* repeated by a Cycle and a Phase of 1 hr is disabled: 90 s
C24_Witness ==
    /\ plan.at = "returned"
    /\ Len(plan.flat_list) = 3
    /\ Len(sequence_data) = 3
    /\ sequence_data[2].type = "Cycle" /\ sequence_data[2].enabled
    /\ ~sequence_data[3].enabled /\ sequence_data[3].type = "Phase"
    /\ total_s = 90000

----------------------------------------------------------------------------
(* Properties of the progress bars *)

\* x / y x 100 in 1/100 of a percent, 100 when y is zero
Share(x, y) == IF y = 0 THEN 10000 ELSE Trunc(x * 10000, y)

\* the step of the sequence thread that ends a tick and reports progress
Reports == epc = "for_is_paused" /\ epc' = "phase_while"

\* C30: at every tick the step progress reported is elapsed / duration x
\* 100 and the total progress is (program time of the steps executed
\* before the current one + elapsed) / total planned duration x 100,
\* whatever time was spent paused; 100 when the denominator is zero.
C30_ProgressOfProgramTime ==
    [][Reports =>
          /\ progress'[1].step_prog = Share(elapsed, duration_s)
          /\ progress'[1].total_prog = Share(plan_time + elapsed, total_s)]_vars

----------------------------------------------------------------------------
(* Properties of the command texts *)

\* round(a / b) for a >= 0 and b > 0, halves to the even neighbour
Round(a, b) ==
    LET q == a \div b
        r == a % b
    IN  IF 2 * r < b THEN q
        ELSE IF 2 * r > b THEN q + 1
        ELSE IF q % 2 = 0 THEN q ELSE q + 1

\* R followed by round(rpm x 100), zero-padded to at least 3 digits
RoundedSpeedText(rpm) ==
    LET n == Round(rpm * 100, RpmUnit)
    IN  "R" \o (IF n < 10 THEN "00" ELSE IF n < 100 THEN "0" ELSE "")
            \o ToString(n)

\* the sequence thread puts a command in this step
EnginePuts ==
    /\ Len(sent') = Len(sent) + 1
    /\ sent'[Len(sent')].by = "engine"

\* C29: every command the sequence thread puts has the text the protocol
\* gives it: K> or K< at the start of a Forward or Backward Phase, R and
\* round(rpm x 100) padded to 3 digits for a Fixed target, for a Ramp
\* sample and for the final target of a Phase, and KH at the end of the
\* run.
C29_CommandTexts ==
    [][EnginePuts =>
          sent'[Len(sent')].command_str =
              CASE epc = "phase_enter" ->
                       (IF instruction.direction = "Forward"
                        THEN "K>" ELSE "K<")
                [] epc = "phase_tick" -> RoundedSpeedText(rpm_in_phase')
                [] epc \in {"phase_setup", "phase_final"} ->
                       RoundedSpeedText(instruction.rpm)
                [] OTHER -> "KH"]_vars

----------------------------------------------------------------------------
(* Properties of the controller thread's handlers *)

\* the controller thread processes a command of this action in this step
Processes(action) ==
    /\ worker = "running" /\ command_queue # << >>
    /\ Head(command_queue).action = action
    /\ processed' = Append(processed, Head(command_queue).id)

\* the port operations and the results of this step
NewOps == SubSeq(portLog', Len(portLog) + 1, Len(portLog'))
NewResults == SubSeq(resLog', Len(resLog) + 1, Len(resLog'))
NoFaultIn(ops) == \A i \in 1..Len(ops) : ops[i].ok

HoldsOpenPort == ser # None /\ ports[ser].is_open

\* C27: processing a disconnect command leaves the handle empty in every
\* case; if a port was open and the device does not fault, the step
\* writes the reset byte 255 to that port, then closes it, and emits
\* exactly one result, disconnected.
C27_DisconnectClearsHandle ==
    [][Processes("disconnect") =>
          /\ ser' = None
          /\ (HoldsOpenPort /\ NoFaultIn(NewOps)) =>
                /\ Len(NewOps) = 2
                /\ NewOps[1].op = "write" /\ NewOps[1].bytes = <<255>>
                /\ NewOps[1].port = ser
                /\ NewOps[2].op = "close" /\ NewOps[2].port = ser
                /\ ~ports'[ser].is_open
                /\ Len(NewResults) = 1
                /\ NewResults[1].status = "disconnected"]_vars

\* a disconnect command met a fault of the device, and the handle is empty
C27_Witness ==
    /\ ser = None
    /\ \E i \in 1..Len(portLog) :
          /\ ~portLog[i].ok
          /\ sent[portLog[i].cmd].action = "disconnect"
          /\ processed # << >>
          /\ processed[Len(processed)] = portLog[i].cmd

\* C28: a send_command processed while the controller thread holds no
\* open port performs no port operation and emits exactly one result,
\* error; one processed while it holds an open port performs exactly one
\* write, of the frame line feed, payload, carriage return, to that port
\* and emits no result.
C28_SendCommand ==
    [][Processes("send_command") =>
          IF HoldsOpenPort
          THEN /\ Len(NewOps) = 1
               /\ NewOps[1].op = "write" /\ NewOps[1].port = ser
               /\ NewOps[1].frame =
                      <<"\n", Head(command_queue).command_str, "\r">>
               /\ NewResults = << >>
          ELSE /\ NewOps = << >>
               /\ Len(NewResults) = 1
               /\ NewResults[1].status = "error"
               /\ NewResults[1].cmd = Head(command_queue).id]_vars

\* a send_command was refused with an error because no port was open,
\* after one had been written to the port
C28_Witness ==
    /\ resLog # << >>
    /\ resLog[Len(resLog)].status = "error"
    /\ sent[resLog[Len(resLog)].cmd].action = "send_command"
    /\ \A i \in 1..Len(portLog) : portLog[i].cmd # resLog[Len(resLog)].cmd
    /\ \E i \in 1..Len(portLog) :
          /\ portLog[i].op = "write" /\ portLog[i].ok
          /\ sent[portLog[i].cmd].action = "send_command"

\* C26: when the controller thread has ended its loop, the command it
\* processed last is a stop_thread, no port operation was logged for a
\* later command, and no port is left open.
C26_StopThreadEndsAll ==
    worker = "stopped" =>
        /\ processed # << >>
        /\ sent[processed[Len(processed)]].action = "stop_thread"
        /\ \A i \in 1..Len(portLog) :
              portLog[i].cmd <= processed[Len(processed)]
        /\ \A p \in 1..Len(ports) : ~ports[p].is_open

----------------------------------------------------------------------------
(* Properties of the phases of a run *)

\* the phase of the run, read from the sequence thread and the two events
RunPhase ==
    IF epc = "none" THEN "Idle"
    ELSE IF ~ThreadAlive THEN "Finished"
    ELSE IF stop_event THEN "Stopping"
    ELSE IF pause_event THEN "Paused"
    ELSE "Running"

\* the Pause button's handler takes a request and toggles is_paused
PauseRequest == upc = "idle" /\ upc' \in {"pause_set", "resume_clear"}

\* the Start handler creates the sequence thread
Starts == epc # "start" /\ epc' = "start"

\* the sequence thread begins a run
Begins == epc = "start" /\ epc' = "loop"

\* C25: a pause/resume request changes the pause state only while the run
\* is Running or Paused; a finished run puts no further command and
\* reports no further progress; and a run begins from a reset state:
\* pc 0, no repeat counters, cumulative_time 0, current_rpm 0, not paused.
C25_RunPhases ==
    [][/\ (PauseRequest /\ is_paused' # is_paused)
            => RunPhase \in {"Running", "Paused"}
       /\ (RunPhase = "Finished" /\ RunPhase' = "Finished")
            => (~EnginePuts /\ progress' = progress)
       /\ Starts
            => (~is_paused' /\ ~pause_event' /\ ~stop_event')
       /\ Begins
            => /\ pc' = 0 /\ cycle_counters' = << >>
               /\ cumulative_time' = 0 /\ current_rpm' = 0]_vars

----------------------------------------------------------------------------
(* Properties of sequence files *)

\* the file operations i and i + 1 are a save followed by a load
SaveThenLoad(i) == file_ops[i].op = "save" /\ file_ops[i + 1].op = "load"

\* the file operations i and i + 1 are a load followed by a save of the
\* Program as loaded
LoadThenSave(i) ==
    /\ file_ops[i].op = "load" /\ file_ops[i + 1].op = "save"
    /\ file_ops[i + 1].program = file_ops[i].program

----------------------------------------------------------------------------
(* Properties of the speed commands of a Ramp *)

\* the number of update_interval boundaries contained in e
Boundaries(e, update_interval) ==
    Cardinality({k \in 1..e : k % update_interval = 0})

\* a tick of a Ramp Phase
RampTick ==
    /\ epc = "phase_tick" /\ epc' = "for_stop_check"
    /\ instruction.mode = "Ramp"

\* the ticks of the Phase before the present one that crossed a boundary
EarlierCrossings ==
    {e \in 1..elapsed :
        /\ e % PROGRESS_INTERVAL = 0
        /\ Boundaries(e, instruction.update_interval)
             > Boundaries(e - PROGRESS_INTERVAL, instruction.update_interval)}

\* the speed commands put at the ticks of the present Phase
TickCommands ==
    {i \in 1..Len(sent') :
        /\ sent'[i].by = "engine" /\ sent'[i].at = "phase_tick"
        /\ sent'[i].run = sent'[Len(sent')].run
        /\ \A j \in (i + 1)..Len(sent') : sent'[j].at # "phase_direction"}

\* C32: a tick of a Ramp puts a speed command only if the number of
\* update_interval boundaries contained in elapsed grew at that tick; the
\* speed commands put at the ticks of the Phase are at most as many as the
\* boundaries crossed; and when update_interval is at least the tick, a
\* tick that puts a speed command comes at least one update_interval of
\* phase time after the previous tick that did.
C32_OncePerInterval ==
    [][(RampTick /\ EnginePuts) =>
         LET ui == instruction.update_interval
         IN  /\ Boundaries(elapsed', ui) > Boundaries(elapsed, ui)
             /\ Cardinality(TickCommands) <= Boundaries(elapsed', ui)
             /\ ui >= PROGRESS_INTERVAL
                  => \A e \in EarlierCrossings : elapsed' - e >= ui]_vars

----------------------------------------------------------------------------
(* Properties of disabled steps in a run *)

\* the sequence thread is inside _execute_phase or the for loop over it
InPhase ==
    epc \in {"phase_enter", "phase_setup", "phase_while", "phase_wait",
             "phase_tick", "for_stop_check", "for_pause_wait",
             "for_is_paused", "for_body", "phase_final", "after_for"}

\* the program counter has reached a disabled step
AtDisabled ==
    /\ epc = "dispatch" /\ InRange(sequence_data, pc)
    /\ ~Item(sequence_data, pc).enabled

\* the disabled steps passed over from the program counter on
PassedOver ==
    {q \in pc..(Len(sequence_data) - 1) :
        \A r \in pc..q : ~Item(sequence_data, r).enabled}

\* C33: when the program counter reaches a disabled step, the step is
\* passed over: no command is put, no progress sample is produced,
\* cumulative_time is unchanged, no Phase is entered and no jump is taken
\* at a step passed over, and no repeat counter of such a step is created
\* or changed; the sequence thread is never inside a disabled Phase.
C33_DisabledPassedOver ==
    [][/\ (AtDisabled /\ epc' # epc) =>
            /\ sent' = sent /\ after_calls' = after_calls
            /\ progress' = progress /\ cumulative_time' = cumulative_time
            /\ \A q \in PassedOver :
                 /\ pc' # q
                 /\ q \notin DOMAIN cycle_counters'
                 /\ q \notin DOMAIN cycle_counters
                 /\ walk' # walk => walk'[Len(walk')].at # q
       /\ InPhase' => Item(sequence_data', pc').enabled]_vars

\* a disabled Phase has been passed over and the next Phase entered
C33_Witness ==
    /\ epc = "phase_enter" /\ pc >= 1
    /\ ~Item(sequence_data, pc - 1).enabled
    /\ Item(sequence_data, pc - 1).type = "Phase"

----------------------------------------------------------------------------
(* Properties of nested Cycles *)

EnabledCycles(seq) ==
    {q \in 0..(Len(seq) - 1) : seq[q + 1].type = "Cycle" /\ seq[q + 1].enabled}

\* the enabled Cycles of the Program are i and o, and the Cycle at i with
\* the steps it repeats lies in the range start_phase..end_phase of the
\* Cycle at o
InsideRange(seq, i, o) ==
    /\ EnabledCycles(seq) = {i, o} /\ i # o
    /\ i \in LoopsBack(seq)
    /\ seq[o + 1].start_phase <= seq[i + 1].start_phase
    /\ i + 1 <= seq[o + 1].end_phase

\* the same, with the Cycle at o placed behind the steps it repeats
NestedIn(seq, i, o) ==
    InsideRange(seq, i, o) /\ i < o /\ o \in LoopsBack(seq)

\* the enabled Phases the Cycle at i repeats
BodyOf(seq, i) ==
    {p \in (seq[i + 1].start_phase - 1)..(i - 1) :
        seq[p + 1].type = "Phase" /\ seq[p + 1].enabled}

\* how often the run entered the Phase at p
TimesEntered(p) ==
    Cardinality({k \in 1..Len(walk) :
                    walk[k].type = "Phase" /\ walk[k].at = p})

\* (a + 1) x (b + 1) for the repeats of the Cycles at i and o
Product(seq, i, o) == (seq[i + 1].repeats + 1) * (seq[o + 1].repeats + 1)

\* a run that was not stopped has ended
RunCompleted == epc = "done" /\ ~stop_event

----------------------------------------------------------------------------
(* The Program is read, never written, by a run and by the plan *)

\* the call whose locals plan holds, made again on the Program as it is
SameCallAgain ==
    Flatten(sequence_data, plan.include_disabled, plan.only_disabled)

----------------------------------------------------------------------------
(* One sequence thread at a time *)

\* can_run of _update_ui_states (line 1287): the Run button is enabled
CanRun ==
    /\ is_connected /\ ~is_running_sequence /\ AnyEnabled(sequence_data)

\* C36: a run can be started only when no earlier sequence thread is still
\* executing: whenever the Run button is enabled, no sequence thread is
\* alive.
C36_OneEngine == CanRun => ~ThreadAlive

----------------------------------------------------------------------------
(* The Program during a run *)

\* a run is in progress: started, and not yet finished
RunInProgress == is_running_sequence /\ ThreadAlive

\* C37: while a run is in progress no edit operation changes the Program.
C37_NoEditWhileRunning ==
    [][RunInProgress => sequence_data' = sequence_data]_vars

----------------------------------------------------------------------------
(* Resuming inside a Phase *)

DirectionClass == {"K>", "K<", "KH"}

\* the direction-class command enqueued last, "" if there is none
LastDirection ==
    LET at == {i \in 1..Len(sent) : sent[i].command_str \in DirectionClass}
    IN  IF at = {} THEN ""
        ELSE sent[CHOOSE i \in at : \A j \in at : j <= i].command_str

\* Stop has been clicked: its handler is at work or has set the event
StopRequested == stop_event \/ upc \in {"stop_kh", "stop_set"}

\* the sequence thread advances the elapsed time of its Phase while the
\* run is neither paused nor asked to stop
RunningTick ==
    /\ epc = "phase_tick" /\ elapsed' > elapsed
    /\ ~pause_event /\ ~is_paused /\ ~StopRequested

\* C38: whenever the engine is running inside a Phase and its elapsed time
\* advances, the direction-class command enqueued last is that Phase's run
\* command (K> or K<), not the halt (KH) of a pause.
C38_ResumedPhaseRuns ==
    [][RunningTick =>
         LastDirection =
             (IF instruction.direction = "Forward" THEN "K>" ELSE "K<")]_vars

----------------------------------------------------------------------------
(* The end of a run *)

\* the halts the sequence thread has enqueued in the current run
EngineHalts ==
    {i \in 1..Len(sent) :
        /\ sent[i].by = "engine" /\ sent[i].run = clicks.run
        /\ sent[i].command_str = "KH"}

\* the sequence thread has ended: it has enqueued one halt, behind every
\* other command it enqueued in this run
EndsWithOneHalt ==
    /\ Cardinality(EngineHalts) = 1
    /\ \A i \in EngineHalts : \A j \in (i + 1)..Len(sent) :
           sent[j].by # "engine"

\* completion is reported only for a sequence thread that has ended, and
\* once for each
ReportsOnce ==
    /\ finish_pending' > finish_pending =>
           /\ finish_pending' = finish_pending + 1
           /\ epc # "done" /\ epc' = "done"
    /\ (is_running_sequence /\ ~is_running_sequence') =>
           epc = "done" /\ finish_pending = 1

\* C39: every run that is never stopped and never left paused forever
\* finishes, whatever the Cycles of the Program; it ends with exactly one
\* halt enqueued behind the commands of the last Phase, and completion is
\* reported exactly once.
C39_RunFinishes ==
    /\ is_running_sequence ~> (~is_running_sequence \/ pause_event)
    /\ [](ThreadAlive => EngineHalts = {})
    /\ [](epc \in {"done", "crashed"} => EndsWithOneHalt)
    /\ [][ReportsOnce]_vars

----------------------------------------------------------------------------
(* The range of the progress reported *)

\* 0 to 100 percent, in 1/100 of a percent
InPercentRange(x) == x >= 0 /\ x <= 10000

\* C40: at every tick of a run the step progress and the total progress
\* reported both lie in [0, 100].
C40_ProgressInRange ==
    \A i \in 1..Len(progress) :
        /\ InPercentRange(progress[i].step_prog)
        /\ InPercentRange(progress[i].total_prog)
====
